---- MODULE Spec2Model ----
(***************************************************************************)
(* A model of ics_calendar_utils: the EventProcessor (field mapping, free  *)
(* text date and time normalisation, batch processing with an error log).  *)
(* Python text is a TLA+ string; a character is a string of length one.    *)
(* Python's re and datetime.strptime are modelled by a small backtracking  *)
(* matcher over the patterns the source writes.                            *)
(***************************************************************************)
EXTENDS Integers, Sequences, FiniteSets, TLC

(***************************************************************************)
(* Text primitives (Python str methods used by the source).                *)
(***************************************************************************)
Ch(s, i) == SubSeq(s, i, i)

Digits == "0123456789"
LowerLetters == "abcdefghijklmnopqrstuvwxyz"
UpperLetters == "ABCDEFGHIJKLMNOPQRSTUVWXYZ"

\* 1-based index of character c in text s, 0 when absent
RECURSIVE IndexIn(_, _, _)
IndexIn(c, s, i) ==
    IF i > Len(s) THEN 0
    ELSE IF Ch(s, i) = c THEN i
    ELSE IndexIn(c, s, i + 1)

IsDigit(c) == IndexIn(c, Digits, 1) # 0
IsLower(c) == IndexIn(c, LowerLetters, 1) # 0
IsUpper(c) == IndexIn(c, UpperLetters, 1) # 0
IsAlpha(c) == IsLower(c) \/ IsUpper(c)
\* \w of Python's re
IsWord(c) == IsDigit(c) \/ IsAlpha(c) \/ c = "_"
\* \s of Python's re, and the characters str.strip() removes
IsSpace(c) == c \in {" ", "\t", "\n", "\r", "\f"}

\* str.lower()
LowerCh(c) ==
    LET i == IndexIn(c, UpperLetters, 1)
    IN  IF i = 0 THEN c ELSE Ch(LowerLetters, i)

RECURSIVE LowerFrom(_, _)
LowerFrom(s, i) ==
    IF i > Len(s) THEN "" ELSE LowerCh(Ch(s, i)) \o LowerFrom(s, i + 1)

lower(s) == LowerFrom(s, 1)

StartsAt(s, sub, i) ==
    /\ i + Len(sub) - 1 <= Len(s)
    /\ SubSeq(s, i, i + Len(sub) - 1) = sub

\* str.find(sub, i): the first position >= i where sub occurs, 0 when none
RECURSIVE Find(_, _, _)
Find(s, sub, i) ==
    IF i + Len(sub) - 1 > Len(s) THEN 0
    ELSE IF StartsAt(s, sub, i) THEN i
    ELSE Find(s, sub, i + 1)

\* "sub in s"
Contains(s, sub) == Find(s, sub, 1) # 0

\* str.replace(old, new) for a non-empty old: left to right, non-overlapping
RECURSIVE ReplaceFrom(_, _, _, _)
ReplaceFrom(s, old, new, i) ==
    LET j == Find(s, old, i)
    IN  IF j = 0 THEN SubSeq(s, i, Len(s))
        ELSE SubSeq(s, i, j - 1) \o new \o ReplaceFrom(s, old, new, j + Len(old))

replace(s, old, new) == ReplaceFrom(s, old, new, 1)

RECURSIVE FirstNonSpace(_, _)
FirstNonSpace(s, i) ==
    IF i > Len(s) \/ ~IsSpace(Ch(s, i)) THEN i ELSE FirstNonSpace(s, i + 1)

RECURSIVE LastNonSpace(_, _)
LastNonSpace(s, i) ==
    IF i < 1 \/ ~IsSpace(Ch(s, i)) THEN i ELSE LastNonSpace(s, i - 1)

\* str.strip()
strip(s) == SubSeq(s, FirstNonSpace(s, 1), LastNonSpace(s, Len(s)))

\* int(text) for a text of decimal digits; -1 stands for ValueError
RECURSIVE IntFrom(_, _, _)
IntFrom(s, i, acc) ==
    IF i > Len(s) THEN acc
    ELSE IF ~IsDigit(Ch(s, i)) THEN -1
    ELSE IntFrom(s, i + 1, acc * 10 + (IndexIn(Ch(s, i), Digits, 1) - 1))

int(s) == IF Len(s) = 0 THEN -1 ELSE IntFrom(s, 1, 0)

\* str(n) for n >= 0
RECURSIVE IntToStr(_)
IntToStr(n) ==
    IF n < 10 THEN Ch(Digits, n + 1)
    ELSE IntToStr(n \div 10) \o Ch(Digits, (n % 10) + 1)

\* f"{n:02d}" and f"{n:04d}" (strftime's %m, %d, %Y)
Pad2(n) == IF n < 10 THEN "0" \o IntToStr(n) ELSE IntToStr(n)
Pad4(n) ==
    IF n < 10 THEN "000" \o IntToStr(n)
    ELSE IF n < 100 THEN "00" \o IntToStr(n)
    ELSE IF n < 1000 THEN "0" \o IntToStr(n)
    ELSE IntToStr(n)

\* Python's order on the characters of an HH:MM text: digits, then ":"
Ord(c) == IF c = ":" THEN 10 ELSE IndexIn(c, Digits, 1) - 1

\* a < b for two texts, as Python compares str
RECURSIVE StrLess(_, _, _)
StrLess(a, b, i) ==
    IF i > Len(b) THEN FALSE
    ELSE IF i > Len(a) THEN TRUE
    ELSE IF Ord(Ch(a, i)) # Ord(Ch(b, i)) THEN Ord(Ch(a, i)) < Ord(Ch(b, i))
    ELSE StrLess(a, b, i + 1)

(***************************************************************************)
(* Python's re, as far as the source's patterns need it.  A pattern is a   *)
(* sequence of elements tried left to right with backtracking; an element  *)
(* offers its possible end positions in re's order of preference.          *)
(*   lit  a literal text            cls  a character class repeated lo to  *)
(*   alt  ordered literal choices        hi times, greedy (hi = 0: no max) *)
(*   opt  a greedy optional group   bnd  the assertion \b                  *)
(***************************************************************************)
ELit(t) == [k |-> "lit", lit |-> t, cls |-> "", lo |-> 0, hi |-> 0, alts |-> <<>>, sub |-> <<>>]
ECls(c, lo, hi) == [k |-> "cls", lit |-> "", cls |-> c, lo |-> lo, hi |-> hi, alts |-> <<>>, sub |-> <<>>]
EAlt(alts) == [k |-> "alt", lit |-> "", cls |-> "", lo |-> 0, hi |-> 0, alts |-> alts, sub |-> <<>>]
EOpt(sub) == [k |-> "opt", lit |-> "", cls |-> "", lo |-> 0, hi |-> 0, alts |-> <<>>, sub |-> sub]
EBnd == [k |-> "bnd", lit |-> "", cls |-> "", lo |-> 0, hi |-> 0, alts |-> <<>>, sub |-> <<>>]

\* \d, \s, [a-z], [a-zA-Z]
InClass(cls, c) ==
    CASE cls = "d" -> IsDigit(c)
      [] cls = "s" -> IsSpace(c)
      [] cls = "az" -> IsLower(c)
      [] cls = "alpha" -> IsAlpha(c)

RECURSIVE RunLen(_, _, _, _, _)
RunLen(cls, s, pos, hi, n) ==
    IF (hi # 0 /\ n = hi) \/ pos + n > Len(s) \/ ~InClass(cls, Ch(s, pos + n))
    THEN n
    ELSE RunLen(cls, s, pos, hi, n + 1)

\* \b at pos: exactly one of the characters before and at pos is a word character
IsBoundary(s, pos) ==
    LET before == pos > 1 /\ IsWord(Ch(s, pos - 1))
        after == pos <= Len(s) /\ IsWord(Ch(s, pos))
    IN  before # after

NoMatch == [ok |-> FALSE, ends |-> <<>>]

RECURSIVE Cands(_, _, _)
RECURSIVE MatchFrom(_, _, _, _)
RECURSIVE TryCands(_, _, _, _, _)

\* a greedy run of n characters, given back one at a time down to lo
ClassEnds(lo, n, pos) ==
    IF n < lo THEN <<>> ELSE [i \in 1..(n - lo + 1) |-> pos + n - (i - 1)]

\* the alternatives that match at pos, in their order
AltEnds(ok, pos) == [i \in 1..Len(ok) |-> pos + Len(ok[i])]

\* an optional group: taken when it matches, skipped otherwise
OptEnds(m, pos) == (IF m.ok THEN <<m.ends[Len(m.ends)]>> ELSE <<>>) \o <<pos>>

\* the end positions element e can reach from pos, most preferred first
Cands(e, s, pos) ==
    CASE e.k = "lit" ->
           IF StartsAt(s, e.lit, pos) THEN <<pos + Len(e.lit)>> ELSE <<>>
      [] e.k = "cls" -> ClassEnds(e.lo, RunLen(e.cls, s, pos, e.hi, 0), pos)
      [] e.k = "alt" ->
           AltEnds(SelectSeq(e.alts, LAMBDA a : StartsAt(s, a, pos)), pos)
      [] e.k = "opt" -> OptEnds(MatchFrom(e.sub, 1, s, pos), pos)
      [] e.k = "bnd" ->
           IF IsBoundary(s, pos) THEN <<pos>> ELSE <<>>

\* elements k.. of the pattern matched from pos: the end position of each
MatchFrom(elems, k, s, pos) ==
    IF k > Len(elems) THEN [ok |-> TRUE, ends |-> <<>>]
    ELSE TryCands(elems, k, s, Cands(elems[k], s, pos), 1)

\* candidate i is kept when the rest of the pattern matches after it (r)
KeepOrNext(elems, k, s, cs, i, r) ==
    IF r.ok THEN [ok |-> TRUE, ends |-> <<cs[i]>> \o r.ends]
    ELSE TryCands(elems, k, s, cs, i + 1)

TryCands(elems, k, s, cs, i) ==
    IF i > Len(cs) THEN NoMatch
    ELSE KeepOrNext(elems, k, s, cs, i, MatchFrom(elems, k + 1, s, cs[i]))

\* re.match: the pattern anchored at the start of the text
Match(elems, s) == MatchFrom(elems, 1, s, 1)

\* re.search from position from: the leftmost match, start = 0 when none
RECURSIVE Search(_, _, _)
FoundOrNext(elems, s, from, m) ==
    IF m.ok THEN [start |-> from, ends |-> m.ends]
    ELSE Search(elems, s, from + 1)

Search(elems, s, from) ==
    IF from > Len(s) + 1 THEN [start |-> 0, ends |-> <<>>]
    ELSE FoundOrNext(elems, s, from, MatchFrom(elems, 1, s, from))

MatchEnd(m) == m.ends[Len(m.ends)]

\* where the search resumes after match m: an empty match moves on by one
ResumeAt(m) == IF MatchEnd(m) > m.start THEN MatchEnd(m) ELSE m.start + 1

\* re.finditer: the non-overlapping matches, left to right
RECURSIVE FindAll(_, _, _)
CollectFrom(elems, s, m) ==
    IF m.start = 0 THEN <<>>
    ELSE <<m>> \o FindAll(elems, s, ResumeAt(m))

FindAll(elems, s, from) == CollectFrom(elems, s, Search(elems, s, from))

\* re.findall for a pattern without groups: the matched texts
MatchTexts(s, ms) == [i \in 1..Len(ms) |-> SubSeq(s, ms[i].start, MatchEnd(ms[i]) - 1)]

findall(elems, s) == MatchTexts(s, FindAll(elems, s, 1))

\* re.sub: match i of ms replaced by the text repl[i]
RECURSIVE ReplaceMatches(_, _, _, _)
ReplaceMatches(s, ms, repl, i) ==
    IF i > Len(ms)
    THEN SubSeq(s, IF i = 1 THEN 1 ELSE MatchEnd(ms[i - 1]), Len(s))
    ELSE SubSeq(s, IF i = 1 THEN 1 ELSE MatchEnd(ms[i - 1]), ms[i].start - 1)
         \o repl[i] \o ReplaceMatches(s, ms, repl, i + 1)

\* re.sub(pattern, text, s) for a replacement text without group references
ReplaceAll(s, text, ms) == ReplaceMatches(s, ms, [i \in 1..Len(ms) |-> text], 1)

sub_text(elems, text, s) == ReplaceAll(s, text, FindAll(elems, s, 1))

\* the text element i of a match consumed (a group holding that one element)
ElemStart(m, first, i) == IF i = 1 THEN first ELSE m.ends[i - 1]
ElemText(s, m, first, i) == SubSeq(s, ElemStart(m, first, i), m.ends[i] - 1)

(***************************************************************************)
(* Python values of a raw record: text, int or None.                       *)
(***************************************************************************)
None == [t |-> "none", s |-> "", n |-> 0]
Str(s) == [t |-> "str", s |-> s, n |-> 0]
Num(n) == [t |-> "int", s |-> "", n |-> n]
ListOf(items) == [t |-> "list", s |-> "", n |-> 0, items |-> items]

\* "not v"
Falsy(v) ==
    \/ v.t = "none"
    \/ (v.t = "str" /\ v.s = "")
    \/ (v.t = "int" /\ v.n = 0)
    \/ (v.t = "list" /\ v.items = <<>>)

\* what a call did: the value returned, the diagnostics it appended to
\* self.error_log, and the text of the exception it raised ("": none)
Returned(v, logged) == [exc |-> "", ret |-> v, log |-> logged]
Raised(text, logged) == [exc |-> text, ret |-> None, log |-> logged]

(***************************************************************************)
(* EventProcessor.normalize_time                                           *)
(***************************************************************************)
\* r"\b\d{1,2}(?::\d{2})?\s*(?:am|pm)?\b"
TimePattern ==
    << EBnd, ECls("d", 1, 2), EOpt(<<ELit(":"), ECls("d", 2, 2)>>),
       ECls("s", 0, 0), EOpt(<<EAlt(<<"am", "pm">>)>>), EBnd >>

\* r"\s*\(tbc\)"
TbcPattern == << ECls("s", 0, 0), ELit("(tbc)") >>

\* a validity check that looks at the minute only
MinuteOnly(hour, minute) == 0 <= minute /\ minute <= 59

is_valid_time(hour, minute) == 0 <= hour /\ hour <= 23 /\ 0 <= minute /\ minute <= 59

\* the meridian a token carries, the shared one when it carries none
MeridianOf(time_part, shared_meridian) ==
    IF Contains(time_part, "pm") THEN "pm"
    ELSE IF Contains(time_part, "am") THEN "am"
    ELSE shared_meridian

\* the token without its meridian
WithoutMeridian(time_part) ==
    IF Contains(time_part, "pm") THEN strip(replace(time_part, "pm", ""))
    ELSE IF Contains(time_part, "am") THEN strip(replace(time_part, "am", ""))
    ELSE time_part

\* time_part.split(":") with the colon at position c (0: no colon)
HourText(time_part, c) == IF c # 0 THEN SubSeq(time_part, 1, c - 1) ELSE time_part
MinuteText(time_part, c) ==
    IF c # 0 THEN SubSeq(time_part, c + 1, Len(time_part)) ELSE "0"

\* a conversion that leaves 12 am at hour 12
AddTwelveAfterNoon(meridian, hour) ==
    IF meridian = "pm" /\ hour # 12 THEN hour + 12 ELSE hour

\* Convert to 24-hour format
To24Hour(meridian, hour) ==
    IF meridian = "pm" /\ hour # 12 THEN hour + 12
    ELSE IF meridian = "am" /\ hour = 12 THEN 0
    ELSE hour

\* parsed is what int() gave for the hour: negative is the ValueError, caught
FormatTime(parsed, hour, minute) ==
    IF parsed < 0 \/ minute < 0 THEN None
    ELSE IF ~is_valid_time(hour, minute) THEN None
    ELSE Str(Pad2(hour) \o ":" \o Pad2(minute))

ConvertTime(meridian, hour, minute) ==
    FormatTime(hour, To24Hour(meridian, hour), minute)

SplitTime(meridian, time_part, c) ==
    ConvertTime(meridian, int(HourText(time_part, c)), int(MinuteText(time_part, c)))

ParseStripped(meridian, time_part) ==
    SplitTime(meridian, time_part, Find(time_part, ":", 1))

ParseLowered(time_part, shared_meridian) ==
    ParseStripped(MeridianOf(time_part, shared_meridian), WithoutMeridian(time_part))

\* the text of a valid time, None otherwise; shared_meridian is "am", "pm" or ""
parse_single_time(time_part, shared_meridian) ==
    ParseLowered(lower(strip(time_part)), shared_meridian)

\* the meridian of the last token that carries one
RECURSIVE LastMeridian(_, _)
LastMeridian(time_patterns, i) ==
    IF i < 1 THEN ""
    ELSE IF Contains(time_patterns[i], "am") THEN "am"
    ELSE IF Contains(time_patterns[i], "pm") THEN "pm"
    ELSE LastMeridian(time_patterns, i - 1)

\* sorted(texts)[0]
MinOf(a, b) == IF StrLess(a, b, 1) THEN a ELSE b
RECURSIVE MinText(_, _)
MinText(texts, i) ==
    IF i = Len(texts) THEN texts[i]
    ELSE MinOf(MinText(texts, i + 1), texts[i])

\* lines 62-65: the rewrites of the lowercased text
RewriteTime(lowered) ==
    replace(replace(sub_text(TbcPattern, "",
                             replace(lowered, "noon", "12:00pm")),
                    ".", ":"),
            " and ", " & ")

\* lines 120-124: the tokens that parse, as texts
ParseAll(time_patterns, last_meridian) ==
    [i \in 1..Len(time_patterns) |->
        parse_single_time(time_patterns[i], last_meridian)]
TextsOf(kept) == [i \in 1..Len(kept) |-> kept[i].s]
ConvertedTimes(time_patterns) ==
    TextsOf(SelectSeq(ParseAll(time_patterns,
                               LastMeridian(time_patterns, Len(time_patterns))),
                      LAMBDA p : ~Falsy(p)))

\* the first time as written, without the sort
FirstListed(converted_times) ==
    IF converted_times = <<>> THEN Returned(None, <<>>)
    ELSE Returned(Str(converted_times[1]), <<>>)

\* line 126
FirstSorted(converted_times) ==
    IF converted_times = <<>> THEN Returned(None, <<>>)
    ELSE Returned(Str(MinText(converted_times, 1)), <<>>)

\* a text without a time token dismissed without a log entry
NeverLogged(cleaned, time_patterns) ==
    IF time_patterns = <<>> THEN Returned(None, <<>>)
    ELSE FirstSorted(ConvertedTimes(time_patterns))

\* lines 70-72, then the conversion
TimeOfPatterns(cleaned, time_patterns) ==
    IF time_patterns = <<>>
    THEN Returned(None, <<"No valid time patterns found in: '" \o cleaned \o "'">>)
    ELSE FirstSorted(ConvertedTimes(time_patterns))

TimeOfCleaned(cleaned) == TimeOfPatterns(cleaned, findall(TimePattern, cleaned))

normalize_time(time_str) ==
    IF Falsy(time_str) THEN Returned(None, <<>>)
    ELSE IF time_str.t # "str"
    THEN Raised("'" \o time_str.t \o "' object has no attribute 'lower'", <<>>)
    ELSE IF lower(time_str.s) = "tbc" THEN Returned(None, <<>>)
    ELSE TimeOfCleaned(RewriteTime(lower(time_str.s)))

(***************************************************************************)
(* datetime.strptime(text, fmt).date(), for the directives of the source's *)
(* formats.  A format is the sequence of its directives and literals; the  *)
(* text must match the format's pattern from its start and leave nothing   *)
(* unconverted, and the fields must name a calendar date.                  *)
(***************************************************************************)
FullMonths ==
    << "january", "february", "march", "april", "may", "june", "july",
       "august", "september", "october", "november", "december" >>
AbbrMonths ==
    << "jan", "feb", "mar", "apr", "may", "jun", "jul", "aug", "sep", "oct",
       "nov", "dec" >>

\* %B: the month names, longest first
FullMonthAlts ==
    << "september", "february", "november", "december", "january", "october",
       "august", "march", "april", "june", "july", "may" >>

\* %d: 3[0-1]|[1-2]\d|0[1-9]|[1-9]| [1-9]
DayAlts ==
    << "30", "31" >>
    \o [i \in 1..20 |-> IntToStr(i + 9)]
    \o [i \in 1..9 |-> "0" \o IntToStr(i)]
    \o [i \in 1..9 |-> IntToStr(i)]
    \o [i \in 1..9 |-> " " \o IntToStr(i)]

\* %m: 1[0-2]|0[1-9]|[1-9]
MonthAlts ==
    << "10", "11", "12" >>
    \o [i \in 1..9 |-> "0" \o IntToStr(i)]
    \o [i \in 1..9 |-> IntToStr(i)]

\* %H: 2[0-3]|[0-1]\d|\d
HourAlts ==
    [i \in 1..4 |-> IntToStr(i + 19)]
    \o [i \in 1..20 |-> Pad2(i - 1)]
    \o [i \in 1..10 |-> IntToStr(i - 1)]

\* %M: [0-5]\d|\d
MinuteAlts == [i \in 1..60 |-> Pad2(i - 1)] \o [i \in 1..10 |-> IntToStr(i - 1)]

DirectiveRE(d) ==
    CASE d = "%Y" -> ECls("d", 4, 4)
      [] d = "%H" -> EAlt(HourAlts)
      [] d = "%M" -> EAlt(MinuteAlts)
      [] d = "%y" -> ECls("d", 2, 2)
      [] d = "%m" -> EAlt(MonthAlts)
      [] d = "%d" -> EAlt(DayAlts)
      [] d = "%B" -> EAlt(FullMonthAlts)
      [] d = "%b" -> EAlt(AbbrMonths)
      [] d = " " -> ECls("s", 1, 0)
      [] OTHER -> ELit(d)

FormatRE(fmt) == [i \in 1..Len(fmt) |-> DirectiveRE(fmt[i])]

\* list.index: the position of x in seq, 0 when absent
RECURSIVE IndexFrom(_, _, _)
IndexFrom(x, seq, i) ==
    IF i > Len(seq) THEN 0
    ELSE IF seq[i] = x THEN i
    ELSE IndexFrom(x, seq, i + 1)

PositionIn(x, seq) == IndexFrom(x, seq, 1)

\* the text the directive d of fmt consumed, "" when fmt lacks d
FieldAt(s, m, i) == IF i = 0 THEN "" ELSE ElemText(s, m, 1, i)
FieldText(s, fmt, m, d) == FieldAt(s, m, PositionIn(d, fmt))

IsLeap(y) == y % 4 = 0 /\ (y % 100 # 0 \/ y % 400 = 0)

DaysInMonth(y, m) ==
    IF m = 2 THEN (IF IsLeap(y) THEN 29 ELSE 28)
    ELSE IF m \in {4, 6, 9, 11} THEN 30
    ELSE 31

\* datetime.date(y, m, d) accepts these
IsDate(y, m, d) ==
    /\ 1 <= y /\ y <= 9999
    /\ 1 <= m /\ m <= 12
    /\ 1 <= d /\ d <= DaysInMonth(y, m)

NoDate == [ok |-> FALSE, year |-> 0, month |-> 0, day |-> 0]

\* %y: 69..99 are 1969..1999 and 00..68 are 2000..2068
TwoDigitYear(y) == IF y <= 68 THEN 2000 + y ELSE 1900 + y

\* the year of %Y, or of %y
YearOf(Y, y) == IF Y # "" THEN int(Y) ELSE TwoDigitYear(int(y))

\* the month of %B, of %b, or of %m
MonthOf(B, b, m) ==
    IF B # "" THEN PositionIn(B, FullMonths)
    ELSE IF b # "" THEN PositionIn(b, AbbrMonths)
    ELSE int(m)

MakeDate(year, month, day) ==
    IF IsDate(year, month, day)
    THEN [ok |-> TRUE, year |-> year, month |-> month, day |-> day]
    ELSE NoDate

DateOfMatch(s, fmt, m) ==
    IF ~m.ok \/ MatchEnd(m) # Len(s) + 1 THEN NoDate
    ELSE MakeDate(YearOf(FieldText(s, fmt, m, "%Y"), FieldText(s, fmt, m, "%y")),
                  MonthOf(FieldText(s, fmt, m, "%B"), FieldText(s, fmt, m, "%b"),
                          FieldText(s, fmt, m, "%m")),
                  int(strip(FieldText(s, fmt, m, "%d"))))

strptime(s, fmt) == DateOfMatch(s, fmt, Match(FormatRE(fmt), s))

\* strptime for a format with %H and %M: the date with its hour and minute
NoDateTime == [ok |-> FALSE, year |-> 0, month |-> 0, day |-> 0, hour |-> 0, minute |-> 0]
WithTime(s, fmt, m, date) ==
    IF ~date.ok THEN NoDateTime
    ELSE [ok |-> TRUE, year |-> date.year, month |-> date.month, day |-> date.day,
          hour |-> int(FieldText(s, fmt, m, "%H")),
          minute |-> int(FieldText(s, fmt, m, "%M"))]
DateTimeOfMatch(s, fmt, m) == WithTime(s, fmt, m, DateOfMatch(s, fmt, m))
strptime_datetime(s, fmt) == DateTimeOfMatch(s, fmt, Match(FormatRE(fmt), s))

(***************************************************************************)
(* EventProcessor.normalize_date_range                                     *)
(***************************************************************************)
\* r"\b(mon|tue|...|sunday|weekend|wknd)\b"
DayNamePattern ==
    << EBnd,
       EAlt(<< "mon", "tue", "wed", "thu", "fri", "sat", "sun", "monday",
               "tuesday", "wednesday", "thursday", "friday", "saturday",
               "sunday", "weekend", "wknd" >>),
       EBnd >>

\* r"(\d+)(st|nd|rd|th)"
OrdinalPattern == << ECls("d", 1, 0), EAlt(<<"st", "nd", "rd", "th">>) >>

\* r"(\d{1,2})\s*/\s*\d{1,2}(\s+[a-zA-Z]+\s+\d{2,4})"
DayRangePattern ==
    << ECls("d", 1, 2), ECls("s", 0, 0), ELit("/"), ECls("s", 0, 0),
       ECls("d", 1, 2), ECls("s", 1, 0), ECls("alpha", 1, 0), ECls("s", 1, 0),
       ECls("d", 2, 4) >>

\* r"([a-z]+)\s+(\d{1,2}),\s+(\d{4})"
CommaPattern ==
    << ECls("az", 1, 0), ECls("s", 1, 0), ECls("d", 1, 2), ELit(","),
       ECls("s", 1, 0), ECls("d", 4, 4) >>

\* r"\s+"
SpacesPattern == << ECls("s", 1, 0) >>

\* re.sub(r"(\d+)(st|nd|rd|th)", r"\1", s)
OrdinalDigits(s, ms) == [i \in 1..Len(ms) |-> ElemText(s, ms[i], ms[i].start, 1)]
ReplaceOrdinals(s, ms) == ReplaceMatches(s, ms, OrdinalDigits(s, ms), 1)
StripOrdinals(s) == ReplaceOrdinals(s, FindAll(OrdinalPattern, s, 1))

\* re.sub(<day range>, r"\1\2", s)
FirstDayAndRest(s, ms) ==
    [i \in 1..Len(ms) |->
        ElemText(s, ms[i], ms[i].start, 1)
        \o SubSeq(s, ms[i].ends[5], ms[i].ends[9] - 1)]
ReplaceDayRanges(s, ms) == ReplaceMatches(s, ms, FirstDayAndRest(s, ms), 1)
CollapseDayRange(s) == ReplaceDayRanges(s, FindAll(DayRangePattern, s, 1))

\* "Dec 20, 2024" rewritten to "20 dec 2024"; otherwise the commas removed
CommaForm(s, comma_match) ==
    IF comma_match.ok
    THEN ElemText(s, comma_match, 1, 3) \o " "
         \o ElemText(s, comma_match, 1, 1) \o " "
         \o ElemText(s, comma_match, 1, 6)
    ELSE replace(s, ",", "")
RewriteCommaForm(s) == CommaForm(s, Match(CommaPattern, s))

\* the dot kept as it is
DashAndSlashOnly(s) == replace(replace(s, "-", " "), "/", " ")

\* line 171
SpaceSeparators(s) == replace(replace(replace(s, "-", " "), "/", " "), ".", " ")

\* the pre-processing of lines 144-172
CleanDate(date_str) ==
    strip(sub_text(SpacesPattern, " ",
        SpaceSeparators(RewriteCommaForm(CollapseDayRange(StripOrdinals(
            strip(sub_text(DayNamePattern, "", lower(date_str)))))))))

\* the list of possible date formats, in the order they are tried
patterns ==
    << <<"%Y", "-", "%m", "-", "%d">>,
       <<"%d", " ", "%B", " ", "%Y">>,
       <<"%d", " ", "%b", " ", "%Y">>,
       <<"%d", " ", "%B", " ", "%y">>,
       <<"%d", " ", "%b", " ", "%y">>,
       <<"%d", " ", "%m", " ", "%Y">>,
       <<"%d", " ", "%m", " ", "%y">>,
       <<"%Y", " ", "%m", " ", "%d">>,
       <<"%b", " ", "%d", " ", "%Y">>,
       <<"%B", " ", "%d", " ", "%Y">>,
       <<"%m", " ", "%d", " ", "%Y">> >>

\* parsed_date.replace(year = year + 2000) for a year below 2000
\* only a year below 100 moved into this century
PromoteShortYear(year) == IF year < 100 THEN year + 2000 ELSE year

\* lines 193-194
PromoteYear(year) == IF year < 2000 THEN year + 2000 ELSE year

\* strftime("%Y-%m-%d")
FormatISO(year, month, day) == Pad4(year) \o "-" \o Pad2(month) \o "-" \o Pad2(day)

\* the loop over the formats from format i on: the ISO text of the first
\* format that parses, "" when none does
RECURSIVE TryPatterns(_, _)
ISOOrNext(cleaned_str, i, parsed_date, year) ==
    IF parsed_date.ok /\ IsDate(year, parsed_date.month, parsed_date.day)
    THEN FormatISO(year, parsed_date.month, parsed_date.day)
    ELSE TryPatterns(cleaned_str, i + 1)

ParsedOrNext(cleaned_str, i, parsed_date) ==
    ISOOrNext(cleaned_str, i, parsed_date, PromoteYear(parsed_date.year))

TryPatterns(cleaned_str, i) ==
    IF i > Len(patterns) THEN ""
    ELSE ParsedOrNext(cleaned_str, i, strptime(cleaned_str, patterns[i]))

\* the failure logged with the text in lower case
LogsLowered(date_text, iso) ==
    IF iso # "" THEN Returned(Str(iso), <<>>)
    ELSE Returned(None, <<"Failed to parse date: '" \o lower(date_text) \o "'">>)

\* lines 195 and 199-200
DateOfISO(date_text, iso) ==
    IF iso # "" THEN Returned(Str(iso), <<>>)
    ELSE Returned(None, <<"Failed to parse date: '" \o date_text \o "'">>)

normalize_date_range(date_str) ==
    IF Falsy(date_str) \/ date_str.t # "str" THEN Returned(None, <<>>)
    ELSE DateOfISO(date_str.s, TryPatterns(CleanDate(date_str.s), 1))

(***************************************************************************)
(* EventProcessor: the mapping table.  A Python dict of texts keeps its    *)
(* insertion order: it is a sequence of <<key, value>> with distinct keys. *)
(***************************************************************************)
\* self.field_mappings as __init__ sets it
default_mappings ==
    << <<"fixture", "summary">>, <<"start_time", "dtstart_time">>,
       <<"date", "dtstart_date">>, <<"crowd", "description">>,
       <<"venue", "location">>, <<"end_time", "dtend_time">> >>

RECURSIVE KeyIndex(_, _, _)
KeyIndex(d, key, i) ==
    IF i > Len(d) THEN 0
    ELSE IF d[i][1] = key THEN i
    ELSE KeyIndex(d, key, i + 1)

\* d[key] = value that leaves an existing key alone
SetItemKeepOld(d, key, value) ==
    IF KeyIndex(d, key, 1) = 0 THEN Append(d, <<key, value>>) ELSE d

\* d[key] = value: a new key goes last, an existing key keeps its place
ItemAt(d, key, value, j) ==
    IF j = 0 THEN Append(d, <<key, value>>)
    ELSE [d EXCEPT ![j] = <<key, value>>]

SetItem(d, key, value) == ItemAt(d, key, value, KeyIndex(d, key, 1))

\* dict.update(mappings)
RECURSIVE UpdateFrom(_, _, _)
UpdateFrom(d, mappings, i) ==
    IF i > Len(mappings) THEN d
    ELSE UpdateFrom(SetItem(d, mappings[i][1], mappings[i][2]), mappings, i + 1)

add_mapping(field_maps, mappings) == UpdateFrom(field_maps, mappings, 1)

(***************************************************************************)
(* The inputs the model draws from.                                        *)
(***************************************************************************)
\* the tables callers pass to add_mapping
CustomMapping == << <<"title", "summary">>, <<"event_date", "dtstart_date">> >>
RemapMapping == << <<"fixture", "description">>, <<"event_date", "dtstart_time">> >>
Tables == {CustomMapping, RemapMapping}

\* raw records: a function from the keys present to their values
GoodRecord ==
    [fixture |-> Str("Match A"), date |-> Str("20/12/2024"),
     start_time |-> Str("2:30pm"), venue |-> Str("Stadium")]
BadDateRecord ==
    [fixture |-> Str("Match B"), date |-> Str("invalid-date"),
     start_time |-> Str("15:00"), event_date |-> Str("2024-12-22")]
BadTimeRecord ==
    [title |-> Str("Gala"), date |-> Str("Sat 21 Dec 2024"),
     start_time |-> Str("invalid-time"), end_time |-> Str("25:00")]
NumberTimeRecord ==
    [fixture |-> Str("Match D"), event_date |-> Str("22 Dec 2024"),
     start_time |-> Num(1530)]
EmptyDateRecord ==
    [fixture |-> Str("Match E"), date |-> Str(""), venue |-> Str("Arena")]
NoDateRecord ==
    [fixture |-> None, title |-> Str("Quiz"), start_time |-> Str("tbc"),
     end_time |-> Str("noon")]

Records ==
    {GoodRecord, BadDateRecord, BadTimeRecord, NumberTimeRecord,
     EmptyDateRecord, NoDateRecord}
SmallRecords == {GoodRecord, BadDateRecord, BadTimeRecord}

\* the longest batch passed to process_events
MaxBatch == 2
\* the most diagnostics direct normalize_* calls add between two process calls
MaxDirect == 1

BatchesOf(records) == UNION {[1..n -> records] : n \in 0..MaxBatch}

\* the values passed to normalize_time and normalize_date_range directly
DirectTimes == {Str("3pm and 5pm"), Str("invalid-time")}
DirectDates == {Str("Dec 20, 2024"), Str("invalid-date")}

\* normalize_time and normalize_date_range of every value of the inputs,
\* evaluated once
InputValues ==
    UNION {{r[k] : k \in DOMAIN r} : r \in Records} \cup DirectTimes \cup DirectDates
TimeResults == [v \in InputValues |-> normalize_time(v)]
DateResults == [v \in InputValues |-> normalize_date_range(v)]
CallNormalizeTime(v) == TimeResults[v]
CallNormalizeDate(v) == DateResults[v]

(***************************************************************************)
(* EventProcessor._process_single_event and process_events                 *)
(***************************************************************************)
\* a processed event: a function from the keys present to their values
EmptyEvent == [k \in {} |-> None]
PutField(processed, key, value) ==
    [k \in DOMAIN processed \cup {key} |-> IF k = key THEN value ELSE processed[k]]

\* raw_event.get("fixture", "Untitled Event")
UntitledAlways(raw_event) == Str("Untitled Event")

FallbackSummary(raw_event) ==
    IF "fixture" \in DOMAIN raw_event THEN raw_event["fixture"]
    ELSE Str("Untitled Event")

\* lines 246-250: the required fields, and the return
FinishEvent(processed, raw_event, logged) ==
    [exc |-> "", none |-> FALSE, log |-> logged,
     event |-> IF "summary" \in DOMAIN processed THEN processed
               ELSE PutField(processed, "summary", FallbackSummary(raw_event))]

\* "return None", and an exception leaving the method
NoEvent(logged) == [exc |-> "", none |-> TRUE, log |-> logged, event |-> EmptyEvent]
EventRaised(text, logged) == [exc |-> text, none |-> TRUE, log |-> logged, event |-> EmptyEvent]

\* the loop of lines 230-244 from entry i of the mapping table on
RECURSIVE MapFields(_, _, _, _, _)

\* the date kept as the record wrote it once it is known to parse
DateFieldAsWritten(field_maps, raw_event, i, processed, logged, target_field, d) ==
    IF Falsy(d.ret) THEN NoEvent(logged \o d.log)
    ELSE MapFields(field_maps, raw_event, i + 1,
                   PutField(processed, target_field, raw_event[field_maps[i][1]]),
                   logged \o d.log)

\* lines 236-238 and 244, d being what normalize_date_range did
DateField(field_maps, raw_event, i, processed, logged, target_field, d) ==
    IF Falsy(d.ret) THEN NoEvent(logged \o d.log)
    ELSE MapFields(field_maps, raw_event, i + 1,
                   PutField(processed, target_field, d.ret), logged \o d.log)

\* lines 240-244, t being what normalize_time did
TimeField(field_maps, raw_event, i, processed, logged, target_field, t) ==
    IF t.exc # "" THEN EventRaised(t.exc, logged \o t.log)
    ELSE IF Falsy(t.ret)
    THEN MapFields(field_maps, raw_event, i + 1, processed, logged \o t.log)
    ELSE MapFields(field_maps, raw_event, i + 1,
                   PutField(processed, target_field, t.ret), logged \o t.log)

\* one entry of the mapping table
MapField(field_maps, raw_event, i, processed, logged, source_field, target_field) ==
    IF source_field \notin DOMAIN raw_event \/ raw_event[source_field] = None
    THEN MapFields(field_maps, raw_event, i + 1, processed, logged)
    ELSE IF target_field = "dtstart_date"
    THEN DateField(field_maps, raw_event, i, processed, logged, target_field,
                   CallNormalizeDate(raw_event[source_field]))
    ELSE IF target_field = "dtstart_time" \/ target_field = "dtend_time"
    THEN TimeField(field_maps, raw_event, i, processed, logged, target_field,
                   CallNormalizeTime(raw_event[source_field]))
    ELSE MapFields(field_maps, raw_event, i + 1,
                   PutField(processed, target_field, raw_event[source_field]),
                   logged)

MapFields(field_maps, raw_event, i, processed, logged) ==
    IF i > Len(field_maps) THEN FinishEvent(processed, raw_event, logged)
    ELSE MapField(field_maps, raw_event, i, processed, logged,
                  field_maps[i][1], field_maps[i][2])

_process_single_event(field_maps, raw_event) ==
    MapFields(field_maps, raw_event, 1, EmptyEvent, <<>>)

\* self.error_log.clear()
KeepLog(log) == log

clear(log) == <<>>

\* list.append
Prepend(list, item) == <<item>> \o list

append(list, item) == Append(list, item)

\* the except clause of line 221; i is enumerate's index
ErrorEntryOneBased(i, e) == "Error processing event " \o IntToStr(i + 1) \o ": " \o e

ErrorEntry(i, e) == "Error processing event " \o IntToStr(i) \o ": " \o e

\* the loop of lines 215-221 from record n on; origin lists, for every event
\* appended, the position of the record it was made from
RECURSIVE ProcessFrom(_, _, _, _)

\* lines 218-221, o being what _process_single_event did with record n
Collected(acc, n, o, logged) ==
    IF o.exc # ""
    THEN [acc EXCEPT !.log = append(logged, ErrorEntry(n - 1, o.exc))]
    ELSE IF o.none \/ DOMAIN o.event = {}
    THEN [acc EXCEPT !.log = logged]
    ELSE [acc EXCEPT !.log = logged,
                     !.events = append(@, o.event),
                     !.origin = append(@, n)]

ProcessOne(field_maps, raw_events, n, acc, o) ==
    ProcessFrom(field_maps, raw_events, n + 1,
                Collected(acc, n, o, acc.log \o o.log))

ProcessFrom(field_maps, raw_events, n, acc) ==
    IF n > Len(raw_events) THEN acc
    ELSE ProcessOne(field_maps, raw_events, n, acc,
                    _process_single_event(field_maps, raw_events[n]))

process_events(field_maps, log, raw_events) ==
    ProcessFrom(field_maps, raw_events, 1,
                [exc |-> "", events |-> <<>>, origin |-> <<>>, log |-> clear(log)])

\* self.error_log.copy(): the list handed out, and whether it is the log itself
ReturnLogItself(log) == [aliased |-> TRUE, items |-> log]

get_processing_errors(log) == [aliased |-> FALSE, items |-> log]

(***************************************************************************)
(* ICSGenerator.  An event is a function from the keys present to Python   *)
(* values; a call that raises is (exc, no lines).  uid is what uuid4 gave  *)
(* and now what utcnow gave, formatted, during the call.                   *)
(***************************************************************************)
\* __init__
ICSGenerator(calendar_name, timezone) ==
    [calendar_name |-> calendar_name, timezone |-> timezone,
     prodid |-> "-//ICS Calendar Utils//Event Calendar//EN"]

\* event.get(key), and "if event.get(key)"
Get(event, key) == IF key \in DOMAIN event THEN event[key] ELSE None
Has(event, key) == ~Falsy(Get(event, key))

\* str(v), and the f-string's {v}
PyStr(v) ==
    IF v.t = "str" THEN v.s
    ELSE IF v.t = "int" THEN IntToStr(v.n)
    ELSE "None"

Lines(lines) == [exc |-> "", lines |-> lines]
LinesRaised(text) == [exc |-> text, lines |-> <<>>]
\* the lines of a, then those of b, unless one of them raised
Then(a, b) ==
    IF a.exc # "" THEN a
    ELSE IF b.exc # "" THEN b
    ELSE Lines(a.lines \o b.lines)

NoAttribute(v, name) ==
    "'" \o (IF v.t = "none" THEN "NoneType" ELSE v.t)
    \o "' object has no attribute '" \o name \o "'"

_create_calendar_header(gen) ==
    << "BEGIN:VCALENDAR",
       "VERSION:2.0",
       "PRODID:" \o gen.prodid,
       "X-WR-CALNAME:" \o gen.calendar_name,
       "X-WR-TIMEZONE:Europe/London",
       "CALSCALE:GREGORIAN",
       "METHOD:PUBLISH" >>

\* lines 165-173: a value without replace falls back to the current time
_format_datetime(date_str, time_str, now) ==
    IF date_str.t # "str" \/ time_str.t # "str" THEN now
    ELSE replace(date_str.s, "-", "") \o "T" \o replace(time_str.s, ":", "")
         \o "00" \o "Z"

\* the day advanced within the month only
NextDayOfMonth(dt) ==
    IF dt.day < DaysInMonth(dt.year, dt.month) THEN [dt EXCEPT !.day = @ + 1]
    ELSE [dt EXCEPT !.day = 1]

\* date + timedelta(days=1)
NextDay(dt) ==
    IF dt.day < DaysInMonth(dt.year, dt.month) THEN [dt EXCEPT !.day = @ + 1]
    ELSE IF dt.month < 12 THEN [dt EXCEPT !.month = @ + 1, !.day = 1]
    ELSE [dt EXCEPT !.year = @ + 1, !.month = 1, !.day = 1]

\* the hour advanced on the clock alone, the date left as it is
SameDayOnly(dt, hours) == [dt EXCEPT !.hour = (@ + hours) % 24]

\* dt + timedelta(hours=hours), for hours up to 24
AddHours(dt, hours) ==
    IF dt.hour + hours < 24 THEN [dt EXCEPT !.hour = @ + hours]
    ELSE [NextDay(dt) EXCEPT !.hour = dt.hour + hours - 24]

\* strftime("%Y%m%dT%H%M%SZ") of a time without seconds
StampText(dt) ==
    Pad4(dt.year) \o Pad2(dt.month) \o Pad2(dt.day) \o "T" \o Pad2(dt.hour)
    \o Pad2(dt.minute) \o "00" \o "Z"

DateTimeFormat == <<"%Y", "-", "%m", "-", "%d", " ", "%H", ":", "%M">>
DateFormat == <<"%Y", "-", "%m", "-", "%d">>

\* lines 189-190; timedelta raises OverflowError beyond the year 9999
EndStamp(dt_end) ==
    IF dt_end.year > 9999 THEN Raised("date value out of range", <<>>)
    ELSE Returned(Str(StampText(dt_end)), <<>>)

DurationAdded(dt, hours, now) ==
    IF ~dt.ok THEN Returned(Str(now), <<>>) ELSE EndStamp(AddHours(dt, hours))

_add_duration(date_str, time_str, hours, now) ==
    DurationAdded(strptime_datetime(PyStr(date_str) \o " " \o PyStr(time_str),
                                    DateTimeFormat),
                  hours, now)

\* lines 207-208
DayAdded(date_str, dt) ==
    IF ~dt.ok THEN Returned(date_str, <<>>)
    ELSE IF NextDay(dt).year > 9999 THEN Raised("date value out of range", <<>>)
    ELSE Returned(Str(FormatISO(NextDay(dt).year, NextDay(dt).month, NextDay(dt).day)),
                  <<>>)

\* strptime accepts text only: anything else is a TypeError, which is not caught
_add_day(date_str) ==
    IF date_str.t # "str"
    THEN Raised("strptime() argument 1 must be str, not " \o date_str.t, <<>>)
    ELSE DayAdded(date_str, strptime(date_str.s, DateFormat))

\* the same replacements with the backslashes doubled last
EscapeBackslashLast(text) ==
    IF Falsy(text) THEN ""
    ELSE replace(replace(replace(replace(replace(PyStr(text),
             ";", "\\;"), ",", "\\,"), "\n", "\\n"), "\r", ""), "\\", "\\\\")

\* lines 222-233
_escape_ics_text(text) ==
    IF Falsy(text) THEN ""
    ELSE replace(replace(replace(replace(replace(PyStr(text),
             "\\", "\\\\"), ";", "\\;"), ",", "\\,"), "\n", "\\n"), "\r", "")

\* lines 96-105
StartLines(event, now) ==
    IF Has(event, "dtstart_date") /\ Has(event, "dtstart_time")
    THEN Lines(<<"DTSTART:" \o _format_datetime(event["dtstart_date"],
                                                event["dtstart_time"], now)>>)
    ELSE IF ~Has(event, "dtstart_date") THEN Lines(<<>>)
    ELSE IF event["dtstart_date"].t # "str"
    THEN LinesRaised(NoAttribute(event["dtstart_date"], "replace"))
    ELSE Lines(<<"DTSTART;VALUE=DATE:" \o replace(event["dtstart_date"].s, "-", "")>>)

\* the DTEND line from what _add_duration, or _add_day, did
EndLine(o) ==
    IF o.exc # "" THEN LinesRaised(o.exc) ELSE Lines(<<"DTEND:" \o o.ret.s>>)
AllDayEndLine(o) ==
    IF o.exc # "" THEN LinesRaised(o.exc)
    ELSE Lines(<<"DTEND;VALUE=DATE:" \o replace(o.ret.s, "-", "")>>)

\* an end synthesized from any start, whatever end date the record carries
EndLinesFromAnyStart(event, now) ==
    IF Has(event, "dtend_date") /\ Has(event, "dtend_time")
    THEN Lines(<<"DTEND:" \o _format_datetime(event["dtend_date"],
                                              event["dtend_time"], now)>>)
    ELSE IF ~Has(event, "dtstart_date") THEN Lines(<<>>)
    ELSE IF Has(event, "dtstart_time")
    THEN EndLine(_add_duration(event["dtstart_date"], event["dtstart_time"], 2, now))
    ELSE AllDayEndLine(_add_day(event["dtstart_date"]))

\* lines 107-122
EndLines(event, now) ==
    IF Has(event, "dtend_date") /\ Has(event, "dtend_time")
    THEN Lines(<<"DTEND:" \o _format_datetime(event["dtend_date"],
                                              event["dtend_time"], now)>>)
    ELSE IF ~(Has(event, "dtstart_date") /\ ~Has(event, "dtend_date")) THEN Lines(<<>>)
    ELSE IF Has(event, "dtstart_time")
    THEN EndLine(_add_duration(event["dtstart_date"], event["dtstart_time"], 2, now))
    ELSE AllDayEndLine(_add_day(event["dtstart_date"]))

\* lines 124-137: an escaped text property
TextLine(event, key, name) ==
    IF Has(event, key) THEN Lines(<<name \o ":" \o _escape_ics_text(event[key])>>)
    ELSE Lines(<<>>)

\* lines 139-141
UrlLine(event) ==
    IF Has(event, "url") THEN Lines(<<"URL:" \o PyStr(event["url"])>>)
    ELSE Lines(<<>>)

\* ",".join(items)
RECURSIVE JoinFrom(_, _, _)
JoinFrom(items, sep, i) ==
    IF i > Len(items) THEN ""
    ELSE IF i = Len(items) THEN items[i]
    ELSE items[i] \o sep \o JoinFrom(items, sep, i + 1)
join(sep, items) == JoinFrom(items, sep, 1)

\* lines 143-149
CategoriesLine(event) ==
    IF ~Has(event, "categories") THEN Lines(<<>>)
    ELSE IF event["categories"].t = "list"
    THEN Lines(<<"CATEGORIES:" \o join(",", event["categories"].items)>>)
    ELSE Lines(<<"CATEGORIES:" \o PyStr(event["categories"])>>)

_create_event_component(event, uid, now) ==
    Then(Then(Then(Then(Then(Then(Then(Then(
        Lines(<<"BEGIN:VEVENT", "UID:" \o uid, "DTSTAMP:" \o now>>),
        StartLines(event, now)),
        EndLines(event, now)),
        TextLine(event, "summary", "SUMMARY")),
        TextLine(event, "description", "DESCRIPTION")),
        TextLine(event, "location", "LOCATION")),
        UrlLine(event)),
        CategoriesLine(event)),
        Lines(<<"END:VEVENT">>))

\* the loop of lines 51-53 from event i on
RECURSIVE EventLinesFrom(_, _, _, _)
EventLinesFrom(events, uids, now, i) ==
    IF i > Len(events) THEN Lines(<<>>)
    ELSE Then(_create_event_component(events[i], uids[i], now),
              EventLinesFrom(events, uids, now, i + 1))

\* the lines joined, nothing after the last one
NoFinalBreak(ics_lines) ==
    IF ics_lines.exc # "" THEN Raised(ics_lines.exc, <<>>)
    ELSE Returned(Str(join("\r\n", ics_lines.lines)), <<>>)

\* line 57
Content(ics_lines) ==
    IF ics_lines.exc # "" THEN Raised(ics_lines.exc, <<>>)
    ELSE Returned(Str(join("\r\n", ics_lines.lines) \o "\r\n"), <<>>)

\* generate_ics without a filename: nothing is saved
generate_ics(gen, events, uids, now) ==
    Content(Then(Then(Lines(_create_calendar_header(gen)),
                      EventLinesFrom(events, uids, now, 1)),
                 Lines(<<"END:VCALENDAR">>)))

(***************************************************************************)
(* ICSGenerator.validate_events and get_ics_stats.  The issues of a record *)
(* are lines; a dict is a value whose items are its entries.               *)
(***************************************************************************)
TimeFormat == <<"%H", ":", "%M">>
\* datetime.strptime(text, "%H:%M") does not raise ValueError
Parses(s, m) == m.ok /\ MatchEnd(m) = Len(s) + 1
strptime_time(s) == Parses(s, Match(FormatRE(TimeFormat), s))

NotText(v) ==
    "strptime() argument 1 must be str, not " \o (IF v.t = "none" THEN "NoneType" ELSE v.t)

\* lines 265-266
SummaryIssue(event) ==
    IF ~Has(event, "summary") THEN Lines(<<"Missing summary/title">>) ELSE Lines(<<>>)

\* lines 268-275
DateIssue(event) ==
    IF ~Has(event, "dtstart_date") THEN Lines(<<"Missing start date">>)
    ELSE IF event["dtstart_date"].t # "str" THEN LinesRaised(NotText(event["dtstart_date"]))
    ELSE IF strptime(event["dtstart_date"].s, DateFormat).ok THEN Lines(<<>>)
    ELSE Lines(<<"Invalid date format: " \o event["dtstart_date"].s>>)

\* lines 278-282
TimeIssue(event) ==
    IF ~Has(event, "dtstart_time") THEN Lines(<<>>)
    ELSE IF event["dtstart_time"].t # "str" THEN LinesRaised(NotText(event["dtstart_time"]))
    ELSE IF strptime_time(event["dtstart_time"].s) THEN Lines(<<>>)
    ELSE Lines(<<"Invalid time format: " \o event["dtstart_time"].s>>)

\* lines 284-285: i is the position from 0
EventMessage(i, event_errors) ==
    IF event_errors.exc # "" \/ event_errors.lines = <<>> THEN event_errors
    ELSE Lines(<<"Event " \o IntToStr(i + 1) \o ": " \o join("; ", event_errors.lines)>>)

EventIssues(event) == Then(Then(SummaryIssue(event), DateIssue(event)), TimeIssue(event))

\* the loop of lines 261-285 from position i (from 1) on
RECURSIVE ValidateFrom(_, _)
ValidateFrom(events, i) ==
    IF i > Len(events) THEN Lines(<<>>)
    ELSE Then(EventMessage(i - 1, EventIssues(events[i])), ValidateFrom(events, i + 1))

ListResult(r) ==
    IF r.exc # "" THEN Raised(r.exc, <<>>) ELSE Returned(ListOf(r.lines), <<>>)
validate_events(events) == ListResult(ValidateFrom(events, 1))

DictOf(items) == [t |-> "dict", s |-> "", n |-> 0, items |-> items]

\* a start time that is there and empty counted on neither side
TimeCountKeyOnly(event) ==
    IF Has(event, "dtstart_time") THEN <<1, 0>>
    ELSE IF "dtstart_time" \notin DOMAIN event THEN <<0, 1>>
    ELSE <<0, 0>>

\* lines 312-315: what the record adds to events_with_time and all_day_events
TimeCount(event) == IF Has(event, "dtstart_time") THEN <<1, 0>> ELSE <<0, 1>>
\* lines 318-323
KeyCount(event, key) == IF Has(event, key) THEN 1 ELSE 0

RECURSIVE SumFrom(_, _)
SumFrom(counts, i) == IF i > Len(counts) THEN 0 ELSE counts[i] + SumFrom(counts, i + 1)
Sum(counts) == SumFrom(counts, 1)

\* lines 326-331: the dates collected, in record order; TypeError is not caught
DateCollected(event) ==
    IF ~Has(event, "dtstart_date") THEN Lines(<<>>)
    ELSE IF event["dtstart_date"].t # "str" THEN LinesRaised(NotText(event["dtstart_date"]))
    ELSE IF strptime(event["dtstart_date"].s, DateFormat).ok
    THEN Lines(<<strptime(event["dtstart_date"].s, DateFormat)>>)
    ELSE Lines(<<>>)
RECURSIVE DatesFrom(_, _)
DatesFrom(events, i) ==
    IF i > Len(events) THEN Lines(<<>>)
    ELSE Then(DateCollected(events[i]), DatesFrom(events, i + 1))

\* dates.sort()
DateBefore(a, b) ==
    \/ a.year < b.year
    \/ (a.year = b.year /\ a.month < b.month)
    \/ (a.year = b.year /\ a.month = b.month /\ a.day < b.day)
RECURSIVE Insert(_, _, _)
Insert(date, sorted, i) ==
    IF i > Len(sorted) THEN Append(sorted, date)
    ELSE IF DateBefore(date, sorted[i])
    THEN SubSeq(sorted, 1, i - 1) \o <<date>> \o SubSeq(sorted, i, Len(sorted))
    ELSE Insert(date, sorted, i + 1)
RECURSIVE SortFrom(_, _, _)
SortFrom(dates, i, sorted) ==
    IF i > Len(dates) THEN sorted ELSE SortFrom(dates, i + 1, Insert(dates[i], sorted, 1))
sort(dates) == SortFrom(dates, 1, <<>>)

\* lines 334-337, of the sorted dates
DateRange(dates) ==
    IF dates = <<>> THEN [earliest |-> None, latest |-> None]
    ELSE [earliest |-> Str(FormatISO(dates[1].year, dates[1].month, dates[1].day)),
          latest |-> Str(FormatISO(dates[Len(dates)].year, dates[Len(dates)].month,
                                   dates[Len(dates)].day))]

StatsOf(events, dates) ==
    IF dates.exc # "" THEN Raised(dates.exc, <<>>)
    ELSE Returned(DictOf(
        [total_events |-> Len(events),
         events_with_time |-> Sum([i \in 1..Len(events) |-> TimeCount(events[i])[1]]),
         all_day_events |-> Sum([i \in 1..Len(events) |-> TimeCount(events[i])[2]]),
         events_with_location |-> Sum([i \in 1..Len(events) |-> KeyCount(events[i], "location")]),
         events_with_url |-> Sum([i \in 1..Len(events) |-> KeyCount(events[i], "url")]),
         date_range |-> DateRange(sort(dates.lines))]), <<>>)
get_ics_stats(events) == StatsOf(events, DatesFrom(events, 1))

\* the caller's list itself put in the order of the start dates
EventsSortedInPlace(events) ==
    IF Len(events) >= 2
       /\ StrLess(PyStr(Get(events[2], "dtstart_date")),
                  PyStr(Get(events[1], "dtstart_date")), 1)
    THEN <<events[2], events[1]>> \o SubSeq(events, 3, Len(events))
    ELSE events

\* the caller's list after a call: the three methods read events and assign
\* nothing into it (dates, errors and stats are new objects)
EventsAfter(events) == events

(***************************************************************************)
(* process_and_generate: a new EventProcessor and a new ICSGenerator, the  *)
(* batch processed, validated, counted and rendered.                       *)
(***************************************************************************)
\* lines 96-98: "if field_mapping" skips an empty table
ProcessorMappings(field_mapping) ==
    IF field_mapping = <<>> THEN default_mappings
    ELSE add_mapping(default_mappings, field_mapping)

\* lines 106-108
Validation(validate, processed_events) ==
    IF validate THEN validate_events(processed_events) ELSE Returned(ListOf(<<>>), <<>>)

\* lines 116-122, unless a step raised
Artifacts(p, processing_errors, validation_errors, stats, ics_content) ==
    IF validation_errors.exc # "" THEN Raised(validation_errors.exc, <<>>)
    ELSE IF stats.exc # "" THEN Raised(stats.exc, <<>>)
    ELSE IF ics_content.exc # "" THEN Raised(ics_content.exc, <<>>)
    ELSE Returned(DictOf([ics_content |-> ics_content.ret,
                          processed_events |-> p.events,
                          processing_errors |-> processing_errors.items,
                          validation_errors |-> validation_errors.ret.items,
                          stats |-> stats.ret.items]), <<>>)

\* lines 102-114, p being what process_events did
Generated(p, gen, validate, first, now) ==
    Artifacts(p, get_processing_errors(p.log), Validation(validate, p.events),
              get_ics_stats(p.events),
              generate_ics(gen, p.events,
                           [i \in 1..Len(p.events) |->
                               SubSeq(first, 1, Len(first) - 1) \o IntToStr(i)],
                           now))

process_and_generate(events, calendar_name, field_mapping, validate, first, now) ==
    Generated(process_events(ProcessorMappings(field_mapping), <<>>, events),
              ICSGenerator(calendar_name, "UTC"), validate, first, now)

(***************************************************************************)
(* One EventProcessor instance and its caller.                             *)
(***************************************************************************)
VARIABLES
    field_mappings,   \* self.field_mappings
    error_log,        \* self.error_log
    last,             \* the most recent call: its name, argument and result
    returned,         \* the list get_processing_errors handed to the caller
    overlay,          \* the default table overlaid with every supplied table
    proc_log,         \* error_log as the most recent process_events left it
    direct_log,       \* what direct normalize_* calls logged since then
    given,            \* the argument the caller has prepared for its call
    generator         \* the ICSGenerator instance: calendar_name, timezone, prodid

vars ==
    <<field_mappings, error_log, last, returned, overlay, proc_log, direct_log,
      given, generator>>

Call(op, arg, ret, exc) ==
    [op |-> op, arg |-> arg, ret |-> ret, exc |-> exc, origin |-> <<>>,
     dirty |-> FALSE]

NoList == [aliased |-> FALSE, items |-> <<>>]

\* the caller has prepared no argument
NoCase == [kind |-> "none"]

Keys(d) == {d[i][1] : i \in 1..Len(d)}
\* a dict as a function from its keys
DictFn(d) == [k \in Keys(d) |-> d[KeyIndex(d, k, 1)][2]]
\* f overlaid with g: g's value wins on a common key
Overlay(f, g) ==
    [k \in DOMAIN f \cup DOMAIN g |-> IF k \in DOMAIN g THEN g[k] ELSE f[k]]

Init ==
    /\ field_mappings = default_mappings
    /\ error_log = <<>>
    /\ last = Call("init", <<>>, None, "")
    /\ returned = NoList
    /\ overlay = DictFn(default_mappings)
    /\ proc_log = <<>>
    /\ direct_log = <<>>
    /\ given = NoCase
    /\ generator = ICSGenerator("Generated Calendar", "UTC")

AddMapping(mappings) ==
    /\ field_mappings' = add_mapping(field_mappings, mappings)
    /\ overlay' = Overlay(overlay, DictFn(mappings))
    /\ last' = Call("add_mapping", mappings, None, "")
    /\ returned' = NoList
    /\ UNCHANGED <<error_log, proc_log, direct_log, given, generator>>

\* process_events returned r
Processed(raw_events, r) ==
    /\ error_log' = r.log
    /\ last' = [op |-> "process", arg |-> raw_events, ret |-> r.events,
                exc |-> r.exc, origin |-> r.origin, dirty |-> error_log # <<>>]
    /\ proc_log' = r.log
    /\ direct_log' = <<>>
    /\ returned' = NoList
    /\ UNCHANGED <<field_mappings, overlay, given, generator>>

Process(raw_events) ==
    /\ Len(raw_events) <= MaxBatch
    /\ Processed(raw_events, process_events(field_mappings, error_log, raw_events))

\* a direct call of a normalize_* method did o
Normalized(name, v, o) ==
    /\ error_log' = error_log \o o.log
    /\ direct_log' = direct_log \o o.log
    /\ last' = Call(name, v, o.ret, o.exc)
    /\ returned' = NoList
    /\ UNCHANGED <<field_mappings, overlay, proc_log, given, generator>>

NormalizeTime(v) ==
    /\ Len(direct_log) < MaxDirect
    /\ Normalized("normalize_time", v, CallNormalizeTime(v))

NormalizeDateRange(v) ==
    /\ Len(direct_log) < MaxDirect
    /\ Normalized("normalize_date_range", v, CallNormalizeDate(v))

GetProcessingErrors ==
    /\ returned' = get_processing_errors(error_log)
    /\ last' = Call("get_processing_errors", <<>>, returned'.items, "")
    /\ UNCHANGED <<field_mappings, error_log, overlay, proc_log, direct_log, given,
                   generator>>

\* the caller appends to the list it was handed
MutateReturned ==
    /\ last.op = "get_processing_errors"
    /\ returned' = [returned EXCEPT !.items = Append(@, "caller entry")]
    /\ error_log' = IF returned.aliased THEN Append(error_log, "caller entry")
                    ELSE error_log
    /\ last' = Call("mutate", <<>>, None, "")
    /\ UNCHANGED <<field_mappings, overlay, proc_log, direct_log, given, generator>>

\* every operation of the instance, in any order
Next ==
    \/ \E mappings \in Tables : AddMapping(mappings)
    \/ \E raw_events \in BatchesOf(SmallRecords) : Process(raw_events)
    \/ \E v \in DirectTimes : NormalizeTime(v)
    \/ \E v \in DirectDates : NormalizeDateRange(v)
    \/ GetProcessingErrors
    \/ MutateReturned

Spec == Init /\ [][Next]_vars

\* add_mapping and process_events over every batch of the records
NextBatch ==
    \/ \E mappings \in Tables : AddMapping(mappings)
    \/ \E raw_events \in BatchesOf(Records) : Process(raw_events)

SpecBatch == Init /\ [][NextBatch]_vars

(***************************************************************************)
(* Direct calls of normalize_time and normalize_date_range: the caller     *)
(* prepares one argument and makes one call on an instance whose log is    *)
(* empty or holds the diagnostic of an earlier call.                       *)
(***************************************************************************)
\* the decimal digits the caller writes
DigitText == <<"0", "1", "2", "3", "4", "5", "6", "7", "8", "9">>
TwoDigits(n) == DigitText[(n \div 10) + 1] \o DigitText[(n % 10) + 1]
Unpadded(n) == IF n < 10 THEN DigitText[n + 1] ELSE TwoDigits(n)

Hours12 == 1..12
Minutes == 0..59
Meridians == {"am", "pm"}

\* how the caller writes the meridian after the digits
MeridianStyles == {"tight", "spaced", "upper", "capital"}
MeridianText(mer, style) ==
    CASE style = "tight" -> mer
      [] style = "spaced" -> " " \o mer
      [] style = "upper" -> (IF mer = "am" THEN "AM" ELSE "PM")
      [] OTHER -> (IF mer = "am" THEN " Am" ELSE " Pm")

\* "h:mm am|pm", and "h am|pm" for the full hour
TwelveHourCase(h, mm, mer, style, with_minutes) ==
    [kind |-> "time12",
     value |-> Str(Unpadded(h)
                   \o (IF with_minutes THEN ":" \o TwoDigits(mm) ELSE "")
                   \o MeridianText(mer, style)),
     h |-> h, mm |-> mm, mer |-> mer]

TwelveHourCases ==
    {TwelveHourCase(h, mm, mer, style, TRUE) :
        h \in Hours12, mm \in Minutes, mer \in Meridians, style \in MeridianStyles}
    \cup {TwelveHourCase(h, 0, mer, style, FALSE) :
            h \in Hours12, mer \in Meridians, style \in MeridianStyles}

NoonCases == {[kind |-> "noon", value |-> Str(t)] : t \in {"noon", "Noon", "NOON"}}

\* a token of a text with several times: mm < 0 when no minutes are written,
\* mer "" when no meridian is written
TimeToken(h, mm, mer) == [h |-> h, mm |-> mm, mer |-> mer]
TokenText(tok) ==
    Unpadded(tok.h)
    \o (IF tok.mm < 0 THEN "" ELSE ":" \o TwoDigits(tok.mm))
    \o tok.mer
TokenPool ==
    {TimeToken(h, mm, mer) : h \in {3, 11, 12, 15}, mm \in {-1, 30},
                             mer \in {"", "am", "pm"}}
SmallTokenPool == {TimeToken(h, -1, mer) : h \in {3, 12}, mer \in {"", "am", "pm"}}
Joiners == {" & ", " and "}

RECURSIVE JoinTokens(_, _, _)
JoinTokens(tokens, joiner, i) ==
    IF i = Len(tokens) THEN TokenText(tokens[i])
    ELSE TokenText(tokens[i]) \o joiner \o JoinTokens(tokens, joiner, i + 1)

SeveralTimesCase(tokens, joiner) ==
    [kind |-> "times", value |-> Str(JoinTokens(tokens, joiner, 1)),
     tokens |-> tokens]

SeveralTimesCases ==
    {SeveralTimesCase(<<a, b>>, j) : a \in TokenPool, b \in TokenPool, j \in Joiners}
    \cup {SeveralTimesCase(<<a, b, c>>, " & ") :
            a \in SmallTokenPool, b \in SmallTokenPool, c \in SmallTokenPool}

\* arguments without a time: by what is written in them
NoTimeCase(kind, v) == [kind |-> kind, value |-> v]
NoTimeCases ==
    {NoTimeCase("empty", v) : v \in {None, Str("")}}
    \cup {NoTimeCase("tbc", Str(t)) : t \in {"tbc", "TBC", "Tbc", "tBc"}}
    \cup {NoTimeCase("out_of_range", Str(t)) :
            t \in {"25:00", "12:60", "24:00", "23:60", "99:99", "24"}}
    \cup {NoTimeCase("no_token", Str(t)) :
            t \in {"midnight", "invalid", "invalid-time", "Invalid-Time",
                   "Late.Evening", "now and then", "KO at 1530"}}
    \cup {NoTimeCase("valid", Str(t)) : t \in {"14:30", "0:00", "23:59", "7.45"}}

TimeCases == TwelveHourCases \cup NoonCases \cup SeveralTimesCases \cup NoTimeCases
TimeKinds ==
    {"time12", "noon", "times", "empty", "tbc", "out_of_range", "no_token", "valid"}

\* the log an earlier failed call left
EarlierLogs == {<<>>, <<"Failed to parse date: 'invalid-date'">>}

InitGiven(cases) ==
    /\ field_mappings = default_mappings
    /\ overlay = DictFn(default_mappings)
    /\ last = Call("init", <<>>, None, "")
    /\ returned = NoList
    /\ error_log \in EarlierLogs
    /\ proc_log = error_log
    /\ direct_log = <<>>
    /\ given \in cases
    /\ generator = ICSGenerator("Generated Calendar", "UTC")

NormalizeGivenTime ==
    /\ given.kind \in TimeKinds
    /\ last.op = "init"
    /\ Normalized("normalize_time", given.value, normalize_time(given.value))

InitTime == InitGiven(TimeCases)
SpecTime == InitTime /\ [][NormalizeGivenTime]_vars

\* the dates the caller writes, as <<year, month, day>>
SpelledDates ==
    { <<2024, 12, 20>>, <<2025, 5, 16>>, <<2024, 2, 29>>, <<2026, 9, 3>>,
      <<2027, 8, 1>>, <<2027, 11, 22>> }
LongMonthNames ==
    << "January", "February", "March", "April", "May", "June", "July",
       "August", "September", "October", "November", "December" >>
ShortMonthNames ==
    << "Jan", "Feb", "Mar", "Apr", "May", "Jun", "Jul", "Aug", "Sep", "Oct",
       "Nov", "Dec" >>
MonthNames == {LongMonthNames, ShortMonthNames}
\* what may stand before the date
DayPrefixes == {"", "Saturday ", "Sun ", "Monday, ", "weekend ", "wknd "}
Separators == {" ", "-", "/", "."}
LetterCases == {"written", "lower", "upper"}

FourDigits(n) == TwoDigits(n \div 100) \o TwoDigits(n % 100)
OrdinalSuffix(d) ==
    IF d \in {11, 12, 13} THEN "th"
    ELSE IF d % 10 = 1 THEN "st"
    ELSE IF d % 10 = 2 THEN "nd"
    ELSE IF d % 10 = 3 THEN "rd"
    ELSE "th"
DayWritten(d, ordinal) == Unpadded(d) \o (IF ordinal THEN OrdinalSuffix(d) ELSE "")

UpperCh(c) ==
    IF IsLower(c) THEN Ch(UpperLetters, IndexIn(c, LowerLetters, 1)) ELSE c
RECURSIVE UpperFrom(_, _)
UpperFrom(t, i) ==
    IF i > Len(t) THEN "" ELSE UpperCh(Ch(t, i)) \o UpperFrom(t, i + 1)
InCase(t, letter_case) ==
    CASE letter_case = "lower" -> lower(t)
      [] letter_case = "upper" -> UpperFrom(t, 1)
      [] OTHER -> t

SpellingCase(text, date) ==
    [kind |-> "spelling", value |-> Str(text),
     y |-> date[1], m |-> date[2], d |-> date[3]]

\* "Saturday 20th December 2024", "sun 20-dec-2024", ...
DayMonthYearCases ==
    {SpellingCase(InCase(prefix \o DayWritten(date[3], ordinal) \o sep
                         \o names[date[2]] \o sep \o FourDigits(date[1]),
                         letter_case), date) :
        date \in SpelledDates, names \in MonthNames, prefix \in DayPrefixes,
        ordinal \in BOOLEAN, sep \in Separators, letter_case \in LetterCases}

\* "Dec 20, 2024", "Monday, December 20th, 2024", ...
MonthDayYearCases ==
    {SpellingCase(InCase(prefix \o names[date[2]] \o " "
                         \o DayWritten(date[3], ordinal) \o ", "
                         \o FourDigits(date[1]), letter_case), date) :
        date \in SpelledDates, names \in MonthNames, prefix \in DayPrefixes,
        ordinal \in BOOLEAN, letter_case \in LetterCases}

\* "20/12/2024", "weekend 3.9.2026", "03-09-2026", ...
NumericCases ==
    {SpellingCase(prefix \o (IF padded THEN TwoDigits(date[3]) ELSE Unpadded(date[3]))
                  \o sep \o (IF padded THEN TwoDigits(date[2]) ELSE Unpadded(date[2]))
                  \o sep \o FourDigits(date[1]), date) :
        date \in SpelledDates, prefix \in DayPrefixes, padded \in BOOLEAN,
        sep \in Separators}

SpellingCases == DayMonthYearCases \cup MonthDayYearCases \cup NumericCases

\* a date with a two-digit year: "16 May 99", "16 Aug 07", "16/05/99", "16 05 99"
TwoDigitYears == 0..99
YearForms == {"long", "short", "slashes", "spaces"}
TwoDigitYearText(yy, form) ==
    CASE form = "long" -> "16 May " \o TwoDigits(yy)
      [] form = "short" -> "16 Aug " \o TwoDigits(yy)
      [] form = "slashes" -> "16/05/" \o TwoDigits(yy)
      [] OTHER -> "16 05 " \o TwoDigits(yy)
TwoDigitYearCase(yy, form) ==
    [kind |-> "year2", value |-> Str(TwoDigitYearText(yy, form)), yy |-> yy,
     m |-> IF form = "short" THEN 8 ELSE 5, d |-> 16]
TwoDigitYearCases == {TwoDigitYearCase(yy, form) : yy \in TwoDigitYears, form \in YearForms}

\* texts that match none of the date formats
UnparseableCases ==
    {[kind |-> "unparseable", value |-> Str(t)] :
        t \in {"invalid-date", "2024-13-01", "32/12/2024", "12/32/2024",
               "not a date", "TBC", "Invalid-Date", "30 Feb 2024",
               "Tues 20 Dec 2024", "20,12,2024", " "}}

\* a year written in full with four digits, most of them below 2000, on days
\* that exist in every year and on 29 February
WrittenYears == {0, 1, 400, 999, 1000, 1600, 1899, 1900, 1996, 1999, 2000, 2096}
WrittenDays == {<<2, 29>>, <<2, 28>>, <<12, 31>>, <<1, 1>>}
FullYearForms == {"iso", "long", "numeric"}
FullYearText(y, m, d, form) ==
    IF form = "iso" THEN FourDigits(y) \o "-" \o TwoDigits(m) \o "-" \o TwoDigits(d)
    ELSE IF form = "long"
    THEN Unpadded(d) \o " " \o LongMonthNames[m] \o " " \o FourDigits(y)
    ELSE Unpadded(d) \o "/" \o Unpadded(m) \o "/" \o FourDigits(y)
FullYearCase(y, day, form) ==
    [kind |-> "year4", value |-> Str(FullYearText(y, day[1], day[2], form)),
     y |-> y, m |-> day[1], d |-> day[2]]
FullYearCases ==
    {FullYearCase(y, day, form) : y \in WrittenYears, day \in WrittenDays,
                                  form \in FullYearForms}

DateCases == SpellingCases \cup TwoDigitYearCases \cup UnparseableCases \cup FullYearCases
DateKinds == {"spelling", "year2", "unparseable", "year4"}

NormalizeGivenDate ==
    /\ given.kind \in DateKinds
    /\ last.op = "init"
    /\ Normalized("normalize_date_range", given.value,
                  normalize_date_range(given.value))

InitDate == InitGiven(DateCases)
SpecDate == InitDate /\ [][NormalizeGivenDate]_vars

(***************************************************************************)
(* ICSGenerator.generate_ics on a list of canonical records the caller     *)
(* holds.  Every call draws fresh identifiers and reads the clock.         *)
(***************************************************************************)
\* what uuid4 can give for the first event of a call, and what utcnow can give
Uids ==
    {"1b4e28ba-2fa1-4d3b-a3f5-ef19b5a7633b", "6fa459ea-ee8a-4ca4-894e-db77e160355e"}
Stamps == {"20261106T031838Z", "20270101T000000Z"}

Generators ==
    {ICSGenerator("Generated Calendar", "UTC"), ICSGenerator("Test Calendar", "UTC")}

\* canonical records
CompleteEvent ==
    [summary |-> Str("Complete Event"), dtstart_date |-> Str("2024-12-20"),
     dtstart_time |-> Str("14:00"), dtend_time |-> Str("16:00"),
     location |-> Str("Test Location"), description |-> Str("Test Description"),
     url |-> Str("https://example.com")]
MinimalEvent == [summary |-> Str("Minimal Event"), dtstart_date |-> Str("2024-12-20")]
NotedEvent ==
    [summary |-> Str("Final; home, away"), dtstart_date |-> Str("2024-12-31"),
     dtstart_time |-> Str("23:30"), location |-> Str("Ground"),
     description |-> Str("Line one\nLine two\r\nLine three"),
     categories |-> ListOf(<<"sport", "cup">>)]
UndatedEvent == [summary |-> Str("Quiz"), dtstart_time |-> Str("19:00")]
ClosedEvent ==
    [summary |-> Str("Conference"), dtstart_date |-> Str("2025-03-01"),
     dtstart_time |-> Str("09:00"), dtend_date |-> Str("2025-03-02"),
     dtend_time |-> Str("17:00"), categories |-> Str("work")]
RenderRecords == {CompleteEvent, MinimalEvent, NotedEvent, UndatedEvent, ClosedEvent}

\* the longest list passed to generate_ics
MaxEvents == 2

EventLists(records) == UNION {[1..n -> records] : n \in 0..MaxEvents}
EventsCase(events) == [kind |-> "events", events |-> events]

InitEvents(cases, generators) ==
    /\ field_mappings = default_mappings
    /\ overlay = DictFn(default_mappings)
    /\ last = Call("init", <<>>, None, "")
    /\ returned = NoList
    /\ error_log = <<>>
    /\ proc_log = <<>>
    /\ direct_log = <<>>
    /\ given \in cases
    /\ generator \in generators

\* generate_ics did r
Rendered(events, r) ==
    /\ last' = Call("generate_ics", events, r.ret, r.exc)
    /\ given' = [given EXCEPT !.events = EventsAfter(events)]
    /\ UNCHANGED <<field_mappings, error_log, returned, overlay, proc_log,
                   direct_log, generator>>

GenerateIcs(uids, now) ==
    /\ given.kind = "events"
    /\ Rendered(given.events, generate_ics(generator, given.events, uids, now))

\* the identifiers of one call differ from one another
DrawnUids(first, n) == [i \in 1..n |-> SubSeq(first, 1, Len(first) - 1) \o IntToStr(i)]

NextRender ==
    \E first \in Uids, now \in Stamps :
        GenerateIcs(DrawnUids(first, Len(given.events)), now)

InitRender ==
    InitEvents({EventsCase(events) : events \in EventLists(RenderRecords)}, Generators)
SpecRender == InitRender /\ [][NextRender]_vars

\* one record with a start and no end: the start as <<year, month, day>>, and
\* the hour and minute when a start time is written
BoundaryDates ==
    { <<2024, 12, 31>>, <<2024, 2, 28>>, <<2024, 2, 29>>, <<2023, 2, 28>>,
      <<2025, 1, 1>>, <<2024, 1, 31>>, <<2024, 4, 30>>, <<2024, 6, 15>>,
      <<2099, 12, 31>>, <<2100, 2, 28>>, <<2000, 2, 28>>, <<2000, 2, 29>> }
MonthLengths == <<31, 28, 31, 30, 31, 30, 31, 31, 30, 31, 30, 31>>
LeapDay(y, m) ==
    IF m = 2 /\ ((y % 4 = 0 /\ y % 100 # 0) \/ y % 400 = 0) THEN 1 ELSE 0
DaysOfYear(y) ==
    {date \in {y} \X (1..12) \X (1..31) :
        date[3] <= MonthLengths[date[2]] + LeapDay(y, date[2])}
StartHours == 0..23
StartMinutes == {0, 1, 30, 59}

DateWritten(date) ==
    FourDigits(date[1]) \o "-" \o TwoDigits(date[2]) \o "-" \o TwoDigits(date[3])

TimedCase(date, hh, mi) ==
    [kind |-> "events",
     events |-> << [summary |-> Str("Kick-off"),
                    dtstart_date |-> Str(DateWritten(date)),
                    dtstart_time |-> Str(TwoDigits(hh) \o ":" \o TwoDigits(mi))] >>,
     timed |-> TRUE, y |-> date[1], m |-> date[2], d |-> date[3],
     hh |-> hh, mi |-> mi]
AllDayCase(date, start_time) ==
    [kind |-> "events",
     events |-> << [summary |-> Str("Open day"),
                    dtstart_date |-> Str(DateWritten(date)),
                    dtstart_time |-> start_time] >>,
     timed |-> FALSE, y |-> date[1], m |-> date[2], d |-> date[3],
     hh |-> 0, mi |-> 0]

TimedCases ==
    {TimedCase(date, hh, mi) : date \in BoundaryDates, hh \in StartHours,
                               mi \in StartMinutes}
\* every day of a common and of a leap year; no start time, or an empty one
AllDayCases ==
    {AllDayCase(date, None) : date \in DaysOfYear(2023) \cup DaysOfYear(2024) \cup BoundaryDates}
    \cup {AllDayCase(date, Str("")) : date \in BoundaryDates}

\* the record is rendered once
RenderOnce ==
    /\ last.op = "init"
    /\ NextRender

InitRenderOne ==
    InitEvents(TimedCases \cup AllDayCases, {ICSGenerator("Generated Calendar", "UTC")})
SpecRenderOne == InitRenderOne /\ [][RenderOnce]_vars

\* one record with every combination of start and end keys: a key is absent,
\* empty or written
With(key, values) == [k \in (IF values = {} THEN {} ELSE {key}) |-> CHOOSE v \in values : TRUE]
StartDateOptions == {{}, {Str("")}, {Str("2024-12-20")}, {Str("2024-12-31")}}
StartTimeOptions == {{}, {Str("14:00")}, {Str("23:30")}}
EndDateOptions == {{}, {Str("")}, {Str("2024-12-21")}}
EndTimeOptions == {{}, {Str("")}, {Str("16:00")}, {Str("17:30")}, {Str("09:15")}}
EndCase(start_date, start_time, end_date, end_time) ==
    EventsCase(<< [summary |-> Str("Match")]
                  @@ With("dtstart_date", start_date) @@ With("dtstart_time", start_time)
                  @@ With("dtend_date", end_date) @@ With("dtend_time", end_time) >>)
EndCases ==
    {EndCase(start_date, start_time, end_date, end_time) :
        start_date \in StartDateOptions, start_time \in StartTimeOptions,
        end_date \in EndDateOptions, end_time \in EndTimeOptions}

InitRenderEnd == InitEvents(EndCases, {ICSGenerator("Generated Calendar", "UTC")})
SpecRenderEnd == InitRenderEnd /\ [][RenderOnce]_vars

\* one record whose summary, description and location are one text, of the
\* characters the escaping rewrites and a letter
TextAlphabet == {"\\", ";", ",", "\n", "\r", "a", "n"}
\* the longest text
MaxText == 3
RECURSIVE TextsOfLength(_)
TextsOfLength(n) ==
    IF n = 0 THEN {""} ELSE {t \o c : t \in TextsOfLength(n - 1), c \in TextAlphabet}
Texts == UNION {TextsOfLength(n) : n \in 0..MaxText}
TextCase(t) ==
    EventsCase(<< [dtstart_date |-> Str("2024-12-20"), summary |-> Str(t),
                   description |-> Str(t), location |-> Str(t)] >>)
TextCases == {TextCase(t) : t \in Texts}

InitRenderText == InitEvents(TextCases, {ICSGenerator("Generated Calendar", "UTC")})
SpecRenderText == InitRenderText /\ [][RenderOnce]_vars

(***************************************************************************)
(* ICSGenerator.validate_events and get_ics_stats on a list of records the *)
(* caller holds, well-formed or not.                                       *)
(***************************************************************************)
TimedEvent ==
    [summary |-> Str("Event 1"), dtstart_date |-> Str("2024-12-20"),
     dtstart_time |-> Str("14:00"), location |-> Str("Location 1"),
     url |-> Str("https://example.com")]
BareEvent == [summary |-> Str("Event 2"), dtstart_date |-> Str("2024-12-22")]
NoSummaryEvent == [dtstart_date |-> Str("2024-12-20")]
BlankSummaryEvent ==
    [summary |-> Str("   "), dtstart_date |-> Str("2023-11-30"), dtstart_time |-> Str("")]
BadDateEvent == [summary |-> Str("Event with bad date"), dtstart_date |-> Str("invalid-date")]
EmptyRecord == [summary |-> Str(""), location |-> Str("")]
UnpaddedEvent ==
    [summary |-> Str("Run"), dtstart_date |-> Str("2024-1-5"), dtstart_time |-> Str("9:5")]
BadTimeEvent ==
    [summary |-> Str("Late"), dtstart_date |-> Str("2025-02-28"),
     dtstart_time |-> Str("24:00"), url |-> Str("https://example.org")]
NumberDateEvent == [summary |-> Str("Count"), dtstart_date |-> Num(20241220)]
ReviewRecords ==
    {TimedEvent, BareEvent, NoSummaryEvent, BlankSummaryEvent, BadDateEvent, EmptyRecord,
     UnpaddedEvent, BadTimeEvent, NumberDateEvent}

\* a method other than generate_ics was called with the caller's list
Served(op, events, r) ==
    /\ last' = Call(op, events, r.ret, r.exc)
    /\ given' = [given EXCEPT !.events = EventsAfter(events)]
    /\ UNCHANGED <<field_mappings, error_log, returned, overlay, proc_log,
                   direct_log, generator>>

ValidateEvents ==
    /\ given.kind = "events"
    /\ Served("validate_events", given.events, validate_events(given.events))

GetIcsStats ==
    /\ given.kind = "events"
    /\ Served("get_ics_stats", given.events, get_ics_stats(given.events))

NextReview == ValidateEvents \/ GetIcsStats
InitReview ==
    InitEvents({EventsCase(events) : events \in EventLists(ReviewRecords)},
               {ICSGenerator("Generated Calendar", "UTC")})
SpecReview == InitReview /\ [][NextReview]_vars

\* any sequence of generate_ics, validate_events and get_ics_stats calls on
\* one generator with the list the caller holds
ServeRecords == {TimedEvent, BareEvent, NotedEvent, BadDateEvent}
NextServe == NextRender \/ ValidateEvents \/ GetIcsStats
InitServe ==
    InitEvents({EventsCase(events) : events \in EventLists(ServeRecords)}, Generators)
SpecServe == InitServe /\ [][NextServe]_vars

(***************************************************************************)
(* process_and_generate on a raw batch, with or without a mapping table    *)
(* and validation.                                                         *)
(***************************************************************************)
BatchCase(events, field_mapping, validate) ==
    [kind |-> "batch", events |-> events, field_mapping |-> field_mapping,
     validate |-> validate]
BatchCases ==
    {BatchCase(events, field_mapping, validate) :
        events \in BatchesOf(Records), field_mapping \in {<<>>} \cup Tables,
        validate \in BOOLEAN}

\* the function did r; its processor and generator are its own
Composed(events, r) ==
    /\ last' = Call("process_and_generate", events, r.ret, r.exc)
    /\ UNCHANGED <<field_mappings, error_log, returned, overlay, proc_log,
                   direct_log, given, generator>>

ProcessAndGenerate ==
    /\ given.kind = "batch"
    /\ last.op = "init"
    /\ \E first \in Uids, now \in Stamps :
           Composed(given.events,
                    process_and_generate(given.events, "Generated Calendar",
                                         given.field_mapping, given.validate,
                                         first, now))

InitComposite == InitEvents(BatchCases, {ICSGenerator("Generated Calendar", "UTC")})
SpecComposite == InitComposite /\ [][ProcessAndGenerate]_vars

(***************************************************************************)
(* The claims.  After a process call, last.arg is the batch it was given,  *)
(* last.ret the list it returned and field_mappings the table it used.     *)
(***************************************************************************)
Range(seq) == {seq[i] : i \in 1..Len(seq)}

IsProcess == last.op = "process"

\* what handling record i of the batch alone does
Single(i) == _process_single_event(field_mappings, last.arg[i])

\* the entry the batch loop logs for an exception at input position i (from 1)
ErrorText(i, e) == "Error processing event " \o IntToStr(i - 1) \o ": " \o e

\* everything logged while record i is handled
DiagnosticsOf(i) ==
    Single(i).log
    \o (IF Single(i).exc # "" THEN <<ErrorText(i, Single(i).exc)>> ELSE <<>>)

RECURSIVE DiagnosticsUpTo(_)
DiagnosticsUpTo(n) ==
    IF n = 0 THEN <<>> ELSE DiagnosticsUpTo(n - 1) \o DiagnosticsOf(n)

\* the input positions whose record is processed successfully
Succeeded == {i \in 1..Len(last.arg) : Single(i).exc = "" /\ ~Single(i).none}

\* C1: process_events never raises and never aborts the batch: it returns at
\* most as many records as it was given; an exception raised while handling
\* the record at 0-based position i is logged as "Error processing event i:
\* <exception text>", that record is skipped, and every other record is still
\* processed and its diagnostics logged.
C1_NeverAborts ==
    IsProcess =>
        /\ last.exc = ""
        /\ Len(last.ret) <= Len(last.arg)
        /\ \A i \in 1..Len(last.arg) :
              /\ Single(i).exc # "" =>
                    /\ ErrorText(i, Single(i).exc) \in Range(error_log)
                    /\ i \notin Range(last.origin)
              /\ i \in Succeeded => i \in Range(last.origin)
              /\ Range(Single(i).log) \subseteq Range(error_log)

\* a record raises and a later record of the same batch is output
C1_Witness ==
    /\ IsProcess
    /\ \E i, j \in 1..Len(last.arg) :
          i < j /\ Single(i).exc # "" /\ j \in Range(last.origin)

\* the table entries that target the start date and whose source key the record has
DateSources(raw) ==
    {j \in 1..Len(field_mappings) :
        /\ field_mappings[j][2] = "dtstart_date"
        /\ field_mappings[j][1] \in DOMAIN raw}

\* those of them whose value is not None and fails date normalization
FailingDates(raw) ==
    {j \in DateSources(raw) :
        /\ raw[field_mappings[j][1]] # None
        /\ Falsy(CallNormalizeDate(raw[field_mappings[j][1]]).ret)}

\* C2: a record is dropped whenever an entry targeting dtstart_date has a
\* present, non-null source value that fails date normalization; a record
\* with no start-date source field is not dropped and is output without a
\* dtstart_date key.
C2_DroppedOnlyForBadDate ==
    IsProcess =>
        \A i \in 1..Len(last.arg) :
            /\ FailingDates(last.arg[i]) # {} => i \notin Range(last.origin)
            /\ DateSources(last.arg[i]) = {} =>
                  /\ i \in Range(last.origin)
                  /\ "dtstart_date" \notin DOMAIN Single(i).event

\* a record with no start-date source field and a number as its start time
\* is processed under the default table, and nothing is output
C2_Witness ==
    /\ IsProcess
    /\ field_mappings = default_mappings
    /\ last.arg = <<NumberTimeRecord>>
    /\ DateSources(NumberTimeRecord) = {}
    /\ last.ret = <<>>

TimeTargets == {"dtstart_time", "dtend_time"}

\* the table entries targeting a time whose present, non-null value fails
\* time normalization
FailingTimes(raw) ==
    {j \in 1..Len(field_mappings) :
        /\ field_mappings[j][2] \in TimeTargets
        /\ field_mappings[j][1] \in DOMAIN raw
        /\ raw[field_mappings[j][1]] # None
        /\ \/ CallNormalizeTime(raw[field_mappings[j][1]]).exc # ""
           \/ Falsy(CallNormalizeTime(raw[field_mappings[j][1]]).ret)}

\* the record has a start date and every start-date value normalizes
ValidDate(raw) ==
    /\ \E j \in DateSources(raw) : raw[field_mappings[j][1]] # None
    /\ FailingDates(raw) = {}

\* C3: a record whose start-time or end-time value fails time normalization,
\* whatever its type or content, while its start date is valid is still
\* output, with its start date.
C3_BadTimeKeepsRecord ==
    IsProcess =>
        \A i \in 1..Len(last.arg) :
            (FailingTimes(last.arg[i]) # {} /\ ValidDate(last.arg[i])) =>
                /\ i \in Range(last.origin)
                /\ "dtstart_date" \in DOMAIN Single(i).event

\* a record with a valid start date and a number as its start time is
\* processed, and nothing is output
C3_Witness ==
    /\ IsProcess
    /\ last.arg = <<NumberTimeRecord>>
    /\ ValidDate(NumberTimeRecord)
    /\ FailingTimes(NumberTimeRecord) # {}
    /\ last.ret = <<>>

\* C4: every record process_events drops leaves at least one diagnostic in
\* the error log of that call.
C4_EveryDropLogged ==
    IsProcess =>
        \A i \in 1..Len(last.arg) :
            i \notin Range(last.origin) =>
                /\ DiagnosticsOf(i) # <<>>
                /\ Range(DiagnosticsOf(i)) \subseteq Range(error_log)

\* a record whose start date is the empty text is dropped, and the log is empty
C4_Witness ==
    /\ IsProcess
    /\ last.arg = <<EmptyDateRecord>>
    /\ last.ret = <<>>
    /\ error_log = <<>>

\* C5: the error log is cleared at the start of every process_events call:
\* after the call it holds exactly the diagnostics produced while handling
\* the records of that call, in the order of those records.
C5_LogOfLastCall ==
    IsProcess => error_log = DiagnosticsUpTo(Len(last.arg))

\* a call on an all-valid batch made while the log was not empty leaves it empty
C5_Witness ==
    /\ IsProcess
    /\ last.dirty
    /\ Len(last.arg) > 0
    /\ Len(last.ret) = Len(last.arg)
    /\ error_log = <<>>

\* C6 (as stated): get_processing_errors returns exactly the diagnostics of
\* the most recent process_events call, nothing logged outside it.
C6_OnlyLastProcess ==
    last.op = "get_processing_errors" => last.ret = proc_log

\* C6 (amended): get_processing_errors returns the whole error log, which is
\* the diagnostics of the most recent process_events call followed by those
\* that direct normalize_time and normalize_date_range calls logged since; it
\* is a copy, so the caller appending to it leaves the instance's log as it was.
C6_CopyOfWholeLog ==
    /\ last.op = "get_processing_errors" =>
          /\ last.ret = proc_log \o direct_log
          /\ returned.items = error_log
    /\ last.op = "mutate" =>
          /\ error_log = proc_log \o direct_log
          /\ returned.items = Append(error_log, "caller entry")

\* the caller has appended to a returned list that held diagnostics of a
\* process_events call and of a direct call
C6_Witness ==
    /\ last.op = "mutate"
    /\ proc_log # <<>>
    /\ direct_log # <<>>

\* C7: the output of process_events is an order-preserving subsequence of
\* its input: the k-th output record is derived from the k-th successfully
\* processed input record, a dropped record leaves no placeholder, and no
\* input record yields more than one output record.
C7_OrderPreserved ==
    IsProcess =>
        /\ Len(last.ret) = Len(last.origin)
        /\ Range(last.origin) = Succeeded
        /\ \A k \in 1..(Len(last.origin) - 1) : last.origin[k] < last.origin[k + 1]
        /\ \A k \in 1..Len(last.origin) :
              last.ret[k] = Single(last.origin[k]).event

\* the first record of a batch of two is dropped and the second is the
\* only output
C7_Witness ==
    /\ IsProcess
    /\ Len(last.arg) = 2
    /\ last.origin = <<2>>
    /\ Len(last.ret) = 1

\* the table entries that set summary for the record
SummarySources(raw) ==
    {j \in 1..Len(field_mappings) :
        /\ field_mappings[j][2] = "summary"
        /\ field_mappings[j][1] \in DOMAIN raw
        /\ raw[field_mappings[j][1]] # None}

AllDigits(s) == \A i \in 1..Len(s) : IsDigit(Ch(s, i))

\* YYYY-MM-DD naming a calendar date
ValidISODate(v) ==
    /\ v.t = "str"
    /\ Len(v.s) = 10
    /\ Ch(v.s, 5) = "-" /\ Ch(v.s, 8) = "-"
    /\ AllDigits(SubSeq(v.s, 1, 4) \o SubSeq(v.s, 6, 7) \o SubSeq(v.s, 9, 10))
    /\ IsDate(int(SubSeq(v.s, 1, 4)), int(SubSeq(v.s, 6, 7)), int(SubSeq(v.s, 9, 10)))

\* HH:MM with hour 00..23 and minute 00..59
ValidHHMM(v) ==
    /\ v.t = "str"
    /\ Len(v.s) = 5
    /\ Ch(v.s, 3) = ":"
    /\ AllDigits(SubSeq(v.s, 1, 2) \o SubSeq(v.s, 4, 5))
    /\ int(SubSeq(v.s, 1, 2)) <= 23
    /\ int(SubSeq(v.s, 4, 5)) <= 59

\* C9: in every record output, dtstart_date if present is a valid ISO date
\* YYYY-MM-DD, and dtstart_time and dtend_time if present are valid
\* zero-padded 24-hour HH:MM.
C9_WellFormedFields ==
    IsProcess =>
        \A k \in 1..Len(last.ret) :
            /\ "dtstart_date" \in DOMAIN last.ret[k] =>
                  ValidISODate(last.ret[k]["dtstart_date"])
            /\ "dtstart_time" \in DOMAIN last.ret[k] =>
                  ValidHHMM(last.ret[k]["dtstart_time"])
            /\ "dtend_time" \in DOMAIN last.ret[k] =>
                  ValidHHMM(last.ret[k]["dtend_time"])

\* one output carries a start date and a start time, one an end time
C9_Witness ==
    /\ IsProcess
    /\ \E k1, k2 \in 1..Len(last.ret) :
          /\ {"dtstart_date", "dtstart_time"} \subseteq DOMAIN last.ret[k1]
          /\ "dtend_time" \in DOMAIN last.ret[k2]

\* C10: the mapping table is the default table overlaid with every supplied
\* table in call order; only add_mapping changes it, and add_mapping never
\* changes the error log.
C10_MappingFrame ==
    [][/\ DictFn(field_mappings') = overlay'
       /\ Cardinality(Keys(field_mappings')) = Len(field_mappings')
       /\ last'.op # "add_mapping" => field_mappings' = field_mappings
       /\ last'.op = "add_mapping" => error_log' = error_log]_vars

\* a supplied table has overridden an entry of an earlier supplied table and
\* an entry of the default table, while the log held diagnostics
C10_Witness ==
    /\ last.op = "add_mapping"
    /\ Len(field_mappings) = 8
    /\ DictFn(field_mappings)["event_date"] = "dtstart_time"
    /\ DictFn(field_mappings)["fixture"] = "description"
    /\ error_log # <<>>

\* the hour of the 24-hour clock for an hour of the 12-hour clock
Hour24(h, mer) ==
    IF mer = "pm" /\ h # 12 THEN h + 12
    ELSE IF mer = "am" /\ h = 12 THEN 0
    ELSE h

\* the log as it was before the direct call, and what the call appended
Appended == SubSeq(error_log, Len(proc_log) + 1, Len(error_log))
LogKept ==
    /\ Len(error_log) >= Len(proc_log)
    /\ SubSeq(error_log, 1, Len(proc_log)) = proc_log

\* C11: normalize_time of "h:mm am|pm" (and "h am|pm"), h in 1..12, mm in
\* 00..59, in any letter case, returns the zero-padded 24-hour HH:MM: pm adds
\* 12 unless h = 12, 12 am is hour 00, every other hour is unchanged; "noon"
\* returns "12:00".
C11_TwelveHourClock ==
    last.op = "normalize_time" =>
        /\ given.kind = "time12" =>
              /\ last.exc = ""
              /\ last.ret = Str(TwoDigits(Hour24(given.h, given.mer)) \o ":"
                                \o TwoDigits(given.mm))
        /\ given.kind = "noon" => last.ret = Str("12:00")

\* one minute before 1 am, written "12:59 Am"
C11_Witness ==
    /\ last.op = "normalize_time"
    /\ given.kind = "time12"
    /\ given.value = Str("12:59 Am")
    /\ last.ret = Str("00:59")

\* the meridian of the last token that writes one, "" when none does
SharedMeridian(tokens) ==
    IF \A i \in 1..Len(tokens) : tokens[i].mer = "" THEN ""
    ELSE tokens[CHOOSE i \in 1..Len(tokens) :
                    /\ tokens[i].mer # ""
                    /\ \A j \in (i + 1)..Len(tokens) : tokens[j].mer = ""].mer
OwnOrShared(tok, shared) == IF tok.mer # "" THEN tok.mer ELSE shared
WrittenMinutes(tok) == IF tok.mm < 0 THEN 0 ELSE tok.mm
\* the minute of the day a token names, for the tokens that name a valid time
MinuteOfDay(tok, shared) ==
    Hour24(tok.h, OwnOrShared(tok, shared)) * 60 + WrittenMinutes(tok)
ValidToken(tok, shared) ==
    /\ Hour24(tok.h, OwnOrShared(tok, shared)) \in 0..23
    /\ WrittenMinutes(tok) \in 0..59
ValidMinutes(tokens) ==
    {MinuteOfDay(tokens[i], SharedMeridian(tokens)) :
        i \in {j \in 1..Len(tokens) : ValidToken(tokens[j], SharedMeridian(tokens))}}
Earliest(S) == CHOOSE m \in S : \A n \in S : m <= n
ClockText(minute_of_day) ==
    TwoDigits(minute_of_day \div 60) \o ":" \o TwoDigits(minute_of_day % 60)

C13_NothingAndLogging ==
    last.op = "normalize_time" =>
        /\ LogKept
        /\ given.kind \in {"empty", "tbc", "out_of_range", "no_token"}
              => last.ret = None /\ last.exc = ""
        /\ given.kind = "no_token" => Len(Appended) = 1
        /\ given.kind # "no_token" => error_log = proc_log

\* "KO at 1530" has digits but no time token: one entry follows the earlier one
C13_Witness ==
    /\ last.op = "normalize_time"
    /\ given.kind = "no_token"
    /\ given.value = Str("KO at 1530")
    /\ Len(proc_log) = 1
    /\ Len(error_log) = 2

\* C14: the diagnostic normalize_time logs when it finds no time token is
\* "No valid time patterns found in: '<text>'" with the text exactly as the
\* caller supplied it.
C14_LogsSuppliedText ==
    (last.op = "normalize_time" /\ given.kind = "no_token") =>
        Appended = <<"No valid time patterns found in: '" \o given.value.s \o "'">>

ISOText(y, m, d) == FourDigits(y) \o "-" \o TwoDigits(m) \o "-" \o TwoDigits(d)

\* C15: every spelling of one calendar date that differs only in day names,
\* "weekend"/"wknd", ordinal suffixes, letter case, separators and the "Day
\* Month Year" or "Month Day, Year" form with long or short month names is
\* normalised to the same canonical YYYY-MM-DD, that of the date.
C15_SpellingsAgree ==
    (last.op = "normalize_date_range" /\ given.kind = "spelling") =>
        /\ last.exc = ""
        /\ last.ret = Str(ISOText(given.y, given.m, given.d))

\* an upper-case "Month Day, Year" spelling with a day name, a comma and an
\* ordinal suffix
C15_Witness ==
    /\ last.op = "normalize_date_range"
    /\ given.value = Str("MONDAY, NOVEMBER 22ND, 2027")
    /\ last.ret = Str("2027-11-22")

\* C16: a date written with a two-digit year yy, 00..99, is normalised to the
\* year 2000 + yy, whatever yy is.
C16_TwoDigitYearPlus2000 ==
    (last.op = "normalize_date_range" /\ given.kind = "year2") =>
        last.ret = Str(ISOText(2000 + given.yy, given.m, given.d))

\* C17: a non-empty text that matches none of the date formats gives nothing
\* and exactly one new log entry, "Failed to parse date: '<text>'" with the
\* text as supplied; a call that returns a date appends nothing.
C17_FailureLoggedOnce ==
    last.op = "normalize_date_range" =>
        /\ LogKept
        /\ given.kind = "unparseable" =>
              /\ last.ret = None
              /\ Appended = <<"Failed to parse date: '" \o given.value.s \o "'">>
        /\ last.ret # None => error_log = proc_log

\* a text with capitals fails after an earlier failure: two entries, the new
\* one with the capitals kept
C17_Witness ==
    /\ last.op = "normalize_date_range"
    /\ given.value = Str("Invalid-Date")
    /\ Len(proc_log) = 1
    /\ error_log = proc_log \o <<"Failed to parse date: 'Invalid-Date'">>

\* a text cut at every CRLF: the lines, and last what follows the last CRLF
RECURSIVE CutFrom(_, _)
CutAt(text, i, j) ==
    IF j = 0 THEN <<SubSeq(text, i, Len(text))>>
    ELSE <<SubSeq(text, i, j - 1)>> \o CutFrom(text, j + 2)
CutFrom(text, i) == CutAt(text, i, Find(text, "\r\n", i))
AllButLast(pieces) == SubSeq(pieces, 1, Len(pieces) - 1)

IsRendered == last.op = "generate_ics" /\ last.exc = "" /\ last.ret.t = "str"

\* the calendar-level header of the instance
HeaderLines ==
    << "BEGIN:VCALENDAR", "VERSION:2.0",
       "PRODID:-//ICS Calendar Utils//Event Calendar//EN",
       "X-WR-CALNAME:" \o generator.calendar_name,
       "X-WR-TIMEZONE:Europe/London", "CALSCALE:GREGORIAN", "METHOD:PUBLISH" >>

\* the positions of a line among the lines, ascending
PositionsOf(lines, line) == SelectSeq([i \in 1..Len(lines) |-> IF lines[i] = line THEN i ELSE 0],
                                      LAMBDA i : i # 0)

\* a text that escaping leaves as it is
IsPlain(t) == \A c \in {"\\", ";", ",", "\n", "\r"} : ~Contains(t, c)
\* a block carries the plain summary and location of the record
CarriesRecord(block, event) ==
    /\ ("summary" \in DOMAIN event /\ IsPlain(event["summary"].s))
          => \E i \in 1..Len(block) : block[i] = "SUMMARY:" \o event["summary"].s
    /\ ("location" \in DOMAIN event /\ IsPlain(event["location"].s))
          => \E i \in 1..Len(block) : block[i] = "LOCATION:" \o event["location"].s

\* the blocks opened at begins and closed at ends are those of the events, in
\* order, and fill the lines between the header and the footer
BlocksOf(lines, begins, ends, events) ==
    /\ Len(begins) = Len(events)
    /\ Len(ends) = Len(events)
    /\ \A k \in 1..Len(events) :
          /\ begins[k] = (IF k = 1 THEN 8 ELSE ends[k - 1] + 1)
          /\ begins[k] < ends[k]
          /\ CarriesRecord(SubSeq(lines, begins[k], ends[k]), events[k])
    /\ (IF events = <<>> THEN 7 ELSE ends[Len(ends)]) = Len(lines) - 1

ShapeOfLines(lines, events) ==
    /\ \A i \in 1..Len(lines) : ~Contains(lines[i], "\n") /\ ~Contains(lines[i], "\r")
    /\ Len(lines) >= 8
    /\ SubSeq(lines, 1, 7) = HeaderLines
    /\ lines[Len(lines)] = "END:VCALENDAR"
    /\ BlocksOf(lines, PositionsOf(lines, "BEGIN:VEVENT"),
                PositionsOf(lines, "END:VEVENT"), events)

ShapeOfPieces(pieces, events) ==
    /\ pieces[Len(pieces)] = ""
    /\ ShapeOfLines(AllButLast(pieces), events)

\* C18: for a list of n canonical records generate_ics returns the fixed
\* 7-line calendar header, then exactly n event blocks in input order, each
\* opened by one BEGIN:VEVENT line and closed by one END:VEVENT line, then
\* the line END:VCALENDAR; every line, the last included, ends with CRLF.
C18_DocumentShape ==
    last.op = "generate_ics" =>
        /\ IsRendered
        /\ ShapeOfPieces(CutFrom(last.ret.s, 1), last.arg)

\* two records, the one with line breaks and separators in its texts first
C18_Witness ==
    /\ IsRendered
    /\ last.arg = <<NotedEvent, MinimalEvent>>
    /\ Len(PositionsOf(AllButLast(CutFrom(last.ret.s, 1)), "END:VEVENT")) = 2
    /\ generator.calendar_name = "Test Calendar"

\* the lines that begin with a prefix
HasPrefix(line, prefix) ==
    Len(line) >= Len(prefix) /\ SubSeq(line, 1, Len(prefix)) = prefix
LinesWith(lines, prefix) == SelectSeq(lines, LAMBDA line : HasPrefix(line, prefix))

\* the number a text of digits writes, -1 for any other text
DigitValue(c) ==
    IF \E k \in 0..9 : DigitText[k + 1] = c
    THEN CHOOSE k \in 0..9 : DigitText[k + 1] = c
    ELSE -1
RECURSIVE NumberFrom(_, _, _)
NumberFrom(t, i, acc) ==
    IF i > Len(t) THEN acc
    ELSE IF DigitValue(SubSeq(t, i, i)) < 0 THEN -1
    ELSE NumberFrom(t, i + 1, acc * 10 + DigitValue(SubSeq(t, i, i)))
NumberAt(t, from, to) == NumberFrom(SubSeq(t, from, to), 1, 0)

\* the days from 1 March of the year 0 to a date of the Gregorian calendar
DaysUpTo(march_year, months_after_march, d) ==
    365 * march_year + (march_year \div 4) - (march_year \div 100)
    + (march_year \div 400) + ((153 * months_after_march + 2) \div 5) + d - 1
DayNumber(y, m, d) ==
    DaysUpTo(IF m <= 2 THEN y - 1 ELSE y, IF m > 2 THEN m - 3 ELSE m + 9, d)
IsCalendarDay(y, m, d) ==
    /\ m \in 1..12
    /\ d \in 1..(MonthLengths[m] + LeapDay(y, m))
MinuteNumber(y, m, d, hh, mi) == DayNumber(y, m, d) * 1440 + hh * 60 + mi

\* "YYYYMMDDTHHMM00Z" names a minute, the one that follows `start` by `gap`
StampAfter(stamp, start, gap) ==
    /\ Len(stamp) = 16
    /\ SubSeq(stamp, 9, 9) = "T"
    /\ SubSeq(stamp, 14, 16) = "00Z"
    /\ IsCalendarDay(NumberAt(stamp, 1, 4), NumberAt(stamp, 5, 6), NumberAt(stamp, 7, 8))
    /\ NumberAt(stamp, 10, 11) \in 0..23
    /\ NumberAt(stamp, 12, 13) \in 0..59
    /\ MinuteNumber(NumberAt(stamp, 1, 4), NumberAt(stamp, 5, 6),
                    NumberAt(stamp, 7, 8), NumberAt(stamp, 10, 11),
                    NumberAt(stamp, 12, 13)) = start + gap

\* "YYYYMMDD" names the day that follows day number `start`
DayAfter(day, start) ==
    /\ Len(day) = 8
    /\ IsCalendarDay(NumberAt(day, 1, 4), NumberAt(day, 5, 6), NumberAt(day, 7, 8))
    /\ DayNumber(NumberAt(day, 1, 4), NumberAt(day, 5, 6), NumberAt(day, 7, 8))
       = start + 1

DayDigits(c) == FourDigits(c.y) \o TwoDigits(c.m) \o TwoDigits(c.d)

TimedStartAndEnd(c, starts, ends) ==
    /\ starts = << "DTSTART:" \o DayDigits(c) \o "T" \o TwoDigits(c.hh)
                   \o TwoDigits(c.mi) \o "00Z" >>
    /\ Len(ends) = 1
    /\ HasPrefix(ends[1], "DTEND:")
    /\ StampAfter(SubSeq(ends[1], 7, Len(ends[1])),
                  MinuteNumber(c.y, c.m, c.d, c.hh, c.mi), 120)
TimedLines(c, lines) ==
    TimedStartAndEnd(c, LinesWith(lines, "DTSTART"), LinesWith(lines, "DTEND"))

\* C19: a record with a valid start date and start time and no explicit end
\* is rendered with DTSTART:YYYYMMDDTHHMM00Z and a DTEND timestamp exactly two
\* hours after the start, also when that is on the next day, in the next
\* month or in the next year.
C19_TwoHoursLater ==
    (last.op = "generate_ics" /\ "timed" \in DOMAIN given /\ given.timed) =>
        /\ IsRendered
        /\ TimedLines(given, AllButLast(CutFrom(last.ret.s, 1)))

\* 23:30 on 31 December ends at 01:30 on 1 January
C19_Witness ==
    /\ IsRendered
    /\ "timed" \in DOMAIN given
    /\ given.timed
    /\ <<given.y, given.m, given.d, given.hh, given.mi>> = <<2024, 12, 31, 23, 30>>
    /\ Contains(last.ret.s, "\r\nDTEND:20250101T013000Z\r\n")

AllDayStartAndEnd(c, starts, ends) ==
    /\ starts = << "DTSTART;VALUE=DATE:" \o DayDigits(c) >>
    /\ Len(ends) = 1
    /\ HasPrefix(ends[1], "DTEND;VALUE=DATE:")
    /\ DayAfter(SubSeq(ends[1], 18, Len(ends[1])), DayNumber(c.y, c.m, c.d))
AllDayLines(c, lines) ==
    AllDayStartAndEnd(c, LinesWith(lines, "DTSTART"), LinesWith(lines, "DTEND"))

\* C20: a record with a start date, no start time and no end date is rendered
\* with an all-day DTSTART;VALUE=DATE:YYYYMMDD line for the start date and a
\* DTEND;VALUE=DATE:YYYYMMDD line for the following calendar day, across
\* month ends, year ends and 29 February.
C20_AllDayNextDay ==
    (last.op = "generate_ics" /\ "timed" \in DOMAIN given /\ ~given.timed) =>
        /\ IsRendered
        /\ AllDayLines(given, AllButLast(CutFrom(last.ret.s, 1)))

\* 29 February 2024 ends on 1 March
C20_Witness ==
    /\ IsRendered
    /\ "timed" \in DOMAIN given
    /\ ~given.timed
    /\ <<given.y, given.m, given.d>> = <<2024, 2, 29>>
    /\ Contains(last.ret.s, "\r\nDTEND;VALUE=DATE:20240301\r\n")

\* a key of the record is written: there, and not empty
Written(event, key) == key \in DOMAIN event /\ event[key].t = "str" /\ event[key].s # ""
DateDigits(date) == SubSeq(date, 1, 4) \o SubSeq(date, 6, 7) \o SubSeq(date, 9, 10)
TimeDigits(time) == SubSeq(time, 1, 2) \o SubSeq(time, 4, 5)
StartMinute(date, time) ==
    MinuteNumber(NumberAt(date, 1, 4), NumberAt(date, 6, 7), NumberAt(date, 9, 10),
                 NumberAt(time, 1, 2), NumberAt(time, 4, 5))
StartDay(date) == DayNumber(NumberAt(date, 1, 4), NumberAt(date, 6, 7), NumberAt(date, 9, 10))

\* the one DTEND line is the start's, two hours or one day on
FromStart(event, ends) ==
    /\ Len(ends) = 1
    /\ IF Written(event, "dtstart_time")
       THEN /\ HasPrefix(ends[1], "DTEND:")
            /\ StampAfter(SubSeq(ends[1], 7, Len(ends[1])),
                          StartMinute(event["dtstart_date"].s, event["dtstart_time"].s),
                          120)
       ELSE /\ HasPrefix(ends[1], "DTEND;VALUE=DATE:")
            /\ DayAfter(SubSeq(ends[1], 18, Len(ends[1])),
                        StartDay(event["dtstart_date"].s))
EndRule(event, ends) ==
    IF Written(event, "dtend_date") /\ Written(event, "dtend_time")
    THEN ends = << "DTEND:" \o DateDigits(event["dtend_date"].s) \o "T"
                   \o TimeDigits(event["dtend_time"].s) \o "00Z" >>
    ELSE IF Written(event, "dtstart_date") /\ ~Written(event, "dtend_date")
    THEN FromStart(event, ends)
    ELSE ends = <<>>
EndRuleOfLines(event, lines) == EndRule(event, LinesWith(lines, "DTEND"))

EndTimeOnStartDate(event, ends) ==
    ends = << "DTEND:" \o DateDigits(event["dtstart_date"].s) \o "T"
              \o TimeDigits(event["dtend_time"].s) \o "00Z" >>
EndTimeKept(event, lines) ==
    (/\ Written(event, "dtstart_date")
     /\ Written(event, "dtstart_time")
     /\ Written(event, "dtend_time")
     /\ "dtend_date" \notin DOMAIN event)
    => EndTimeOnStartDate(event, LinesWith(lines, "DTEND"))

\* C22: a record with a start date, a start time and an end time but no end
\* date is rendered with DTEND:<start date>T<end time>00Z, whatever the end
\* time is.
C22_EndTimeOnStartDate ==
    (last.op = "generate_ics" /\ Len(last.arg) = 1 /\ "timed" \notin DOMAIN given) =>
        /\ IsRendered
        /\ EndTimeKept(last.arg[1], AllButLast(CutFrom(last.ret.s, 1)))

\* a text escaped one character at a time
EscapedCh(c) ==
    IF c = "\\" THEN "\\\\"
    ELSE IF c = ";" THEN "\\;"
    ELSE IF c = "," THEN "\\,"
    ELSE IF c = "\n" THEN "\\n"
    ELSE IF c = "\r" THEN ""
    ELSE c
RECURSIVE EscapedFrom(_, _)
EscapedFrom(t, i) ==
    IF i > Len(t) THEN "" ELSE EscapedCh(SubSeq(t, i, i)) \o EscapedFrom(t, i + 1)

\* the backslashes that end just before position i
RECURSIVE BackslashesBefore(_, _)
BackslashesBefore(e, i) ==
    IF i > 1 /\ SubSeq(e, i - 1, i - 1) = "\\" THEN 1 + BackslashesBefore(e, i - 1)
    ELSE 0
\* every semicolon and comma stands escaped, and no line break is left
WellEscaped(e) ==
    \A i \in 1..Len(e) :
        /\ SubSeq(e, i, i) \in {";", ","} => BackslashesBefore(e, i) % 2 = 1
        /\ SubSeq(e, i, i) \notin {"\n", "\r"}

\* an empty text has no line; a text of carriage returns has an empty one
PropertyLines(name, t, e) == IF t = "" THEN <<>> ELSE <<name \o ":" \o e>>
EscapedLines(lines, t, e) ==
    /\ WellEscaped(e)
    /\ LinesWith(lines, "SUMMARY:") = PropertyLines("SUMMARY", t, e)
    /\ LinesWith(lines, "DESCRIPTION:") = PropertyLines("DESCRIPTION", t, e)
    /\ LinesWith(lines, "LOCATION:") = PropertyLines("LOCATION", t, e)
TextOf(event) == event["summary"].s
IsTextCase ==
    /\ last.op = "generate_ics"
    /\ Len(last.arg) = 1
    /\ DOMAIN last.arg[1] = {"dtstart_date", "summary", "description", "location"}
    /\ last.arg[1]["description"] = last.arg[1]["summary"]
    /\ last.arg[1]["location"] = last.arg[1]["summary"]

\* C23: summary, description and location are escaped as if one character at
\* a time: every backslash of the text is doubled, every semicolon and comma
\* gets one backslash before it, every newline becomes backslash-n and every
\* carriage return is dropped; a backslash the escaping wrote is never
\* doubled, so backslash-semicolon becomes three backslashes and a semicolon,
\* every semicolon and comma of the output is escaped and no line break is
\* left in it.
C23_EscapedOnce ==
    IsTextCase =>
        /\ IsRendered
        /\ EscapedLines(AllButLast(CutFrom(last.ret.s, 1)), TextOf(last.arg[1]),
                        EscapedFrom(TextOf(last.arg[1]), 1))

\* a backslash followed by a semicolon
C23_Witness ==
    /\ IsTextCase
    /\ IsRendered
    /\ TextOf(last.arg[1]) = "\\;"
    /\ LinesWith(CutFrom(last.ret.s, 1), "SUMMARY") = <<"SUMMARY:\\\\\\;">>

\* every value of every record is text
AllText(events) ==
    \A i \in 1..Len(events) : \A key \in DOMAIN events[i] : events[i][key].t = "str"

\* the record has one of the four issues
NeedsMessage(event) ==
    \/ ~Written(event, "summary")
    \/ ~Written(event, "dtstart_date")
    \/ ~ValidISODate(event["dtstart_date"])
    \/ (Written(event, "dtstart_time") /\ ~ValidHHMM(event["dtstart_time"]))
RECURSIVE FlaggedFrom(_, _)
FlaggedFrom(events, i) ==
    IF i > Len(events) THEN <<>>
    ELSE (IF NeedsMessage(events[i]) THEN <<i>> ELSE <<>>) \o FlaggedFrom(events, i + 1)
\* one message per flagged position, in order, each naming its position
MessagesFor(messages, flagged) ==
    /\ Len(messages) = Len(flagged)
    /\ \A k \in 1..Len(flagged) :
           HasPrefix(messages[k], "Event " \o DigitText[flagged[k] + 1] \o ": ")

\* C24: validate_events returns, in record order, exactly one message
\* "Event <n>: ..." for each record with a missing or empty summary, a missing
\* start date, a start date that is not a valid ISO date, or a start time
\* that is not valid HH:MM, and nothing for the other records; it never
\* raises.
C24_OneMessagePerFaultyRecord ==
    (last.op = "validate_events" /\ AllText(last.arg)) =>
        /\ last.exc = ""
        /\ last.ret.t = "list"
        /\ MessagesFor(last.ret.items, FlaggedFrom(last.arg, 1))

CountOf(events, key) == Cardinality({i \in 1..Len(events) : Written(events[i], key)})
CountsAddUp(events, stats) ==
    /\ stats.total_events = Len(events)
    /\ stats.events_with_time = CountOf(events, "dtstart_time")
    /\ stats.all_day_events = Len(events) - CountOf(events, "dtstart_time")
    /\ stats.events_with_time + stats.all_day_events = stats.total_events
    /\ stats.events_with_location \in 0..stats.total_events
    /\ stats.events_with_url \in 0..stats.total_events
    /\ stats.events_with_location = CountOf(events, "location")
    /\ stats.events_with_url = CountOf(events, "url")

\* C25: get_ics_stats counts every record once, as with a time when its
\* start time is there and not empty and as all-day otherwise, so the two
\* counts add up to total_events, the number of records; the counts of
\* records with a location and with a url lie between 0 and total_events.
C25_CountsAddUp ==
    (last.op = "get_ics_stats" /\ AllText(last.arg)) =>
        /\ last.exc = ""
        /\ last.ret.t = "dict"
        /\ CountsAddUp(last.arg, last.ret.items)

\* a record with a time and one whose start time is there and empty
C25_Witness ==
    /\ last.op = "get_ics_stats"
    /\ last.arg = <<TimedEvent, BlankSummaryEvent>>
    /\ last.exc = ""
    /\ last.ret.items.events_with_time = 1
    /\ last.ret.items.all_day_events = 1
    /\ last.ret.items.total_events = 2

\* the start dates that are valid ISO dates, as a set of texts
ValidStartDates(events) ==
    {events[i]["dtstart_date"].s :
        i \in {j \in 1..Len(events) : /\ Written(events[j], "dtstart_date")
                                      /\ ValidISODate(events[j]["dtstart_date"])}}
NotAfter(a, b) == a = b \/ StrLess(a, b, 1)
RangeOf(dates, range) ==
    IF dates = {} THEN range.earliest = None /\ range.latest = None
    ELSE /\ range.earliest.t = "str" /\ range.latest.t = "str"
         /\ range.earliest.s \in dates /\ range.latest.s \in dates
         /\ \A d \in dates : NotAfter(range.earliest.s, d) /\ NotAfter(d, range.latest.s)

\* C26: earliest and latest are the least and the greatest start date among
\* exactly the records whose start date is a valid ISO date; other records do
\* not count and nothing is raised; both are nothing exactly when no record
\* has a valid start date; the order of the records does not matter.
C26_RangeOfValidDates ==
    (last.op = "get_ics_stats" /\ AllText(last.arg)) =>
        /\ last.exc = ""
        /\ last.ret.t = "dict"
        /\ RangeOf(ValidStartDates(last.arg), last.ret.items.date_range)

ArtifactKeys ==
    {"ics_content", "processed_events", "processing_errors", "validation_errors", "stats"}
\* header and footer, no event block
EmptyCalendar(lines) ==
    /\ Len(lines) = 8
    /\ lines[1] = "BEGIN:VCALENDAR"
    /\ lines[8] = "END:VCALENDAR"
    /\ LinesWith(lines, "BEGIN:VEVENT") = <<>>
\* what is promised when no record of a batch came through
AllFailed(result, pieces) ==
    /\ result.processing_errors # <<>>
    /\ result.stats.total_events = 0
    /\ pieces[Len(pieces)] = ""
    /\ EmptyCalendar(AllButLast(pieces))
Structured(batch, result) ==
    /\ DOMAIN result = ArtifactKeys
    /\ result.ics_content.t = "str"
    /\ (Len(batch) > 0 /\ result.processed_events = <<>>)
       => AllFailed(result, CutFrom(result.ics_content.s, 1))

\* C27: process_and_generate without an output path returns the five
\* artifacts for every batch; when every record of the batch failed
\* normalization, processed_events is empty, processing_errors is not empty,
\* stats.total_events is 0 and ics_content is the header and the footer with
\* no event block.
C27_StructuredResult ==
    last.op = "process_and_generate" =>
        /\ last.exc = ""
        /\ last.ret.t = "dict"
        /\ Structured(last.arg, last.ret.items)

NoFormatIssue(messages) ==
    \A k \in 1..Len(messages) :
        /\ ~Contains(messages[k], "Invalid date format")
        /\ ~Contains(messages[k], "Invalid time format")
\* the issues of a message "Event <n>: <issue>; <issue>" with n below 10
OnlyMissing(messages) ==
    \A k \in 1..Len(messages) :
        SubSeq(messages[k], 10, Len(messages[k]))
            \in {"Missing summary/title", "Missing start date",
                 "Missing summary/title; Missing start date"}

\* C29: validate_events on what process_events returned never reports an
\* invalid date format or an invalid time format, whatever the batch and the
\* mapping table: the only issues are a missing summary and a missing start
\* date.
C29_OnlyMissingAfterProcess ==
    (last.op = "process_and_generate" /\ given.validate) =>
        /\ last.exc = ""
        /\ NoFormatIssue(last.ret.items.validation_errors)
        /\ OnlyMissing(last.ret.items.validation_errors)

\* a record without a date and with a null fixture comes through and is
\* reported for both
C29_Witness ==
    /\ last.op = "process_and_generate"
    /\ given.validate
    /\ last.exc = ""
    /\ last.arg = <<GoodRecord, NoDateRecord>>
    /\ Len(last.ret.items.processed_events) = 2
    /\ last.ret.items.validation_errors
       = <<"Event 2: Missing summary/title; Missing start date">>

\* "YYYY-MM-DD" of a calendar date in the year 2000 or later
DateFrom2000(text) ==
    /\ Len(text) = 10
    /\ SubSeq(text, 5, 5) = "-" /\ SubSeq(text, 8, 8) = "-"
    /\ NumberAt(text, 1, 4) >= 2000
    /\ IsCalendarDay(NumberAt(text, 1, 4), NumberAt(text, 6, 7), NumberAt(text, 9, 10))
\* a date written with its year in full comes back in the year moved by 2000
\* when that year is below 2000, and not at all when the date does not exist
Shifted(c, ret) ==
    IF c.y >= 1 /\ IsCalendarDay(c.y, c.m, c.d)
    THEN ret = Str(ISOText(IF c.y < 2000 THEN c.y + 2000 ELSE c.y, c.m, c.d))
    ELSE ret = None

====
